---- MODULE Spec2Model ----
(***************************************************************************)
(* Verification model of the Aegis compliance engine (jacobp112/aegis-     *)
(* engine): the SPSC LockFreeRingBuffer and IsoParser (hft_core.hpp), the  *)
(* double buffered rule swap and the scoring function of FastRiskEngine    *)
(* (risk_engine.hpp), and the threads of main.cpp: the ingress             *)
(* (FileIngress, KafkaIngress), risk_worker and ipc_sender_worker.         *)
(*                                                                         *)
(* The specifications of the module:                                       *)
(*   SpecRing / SpecRingFair  push and pop of one producer and one         *)
(*                            consumer, one memory access per step;        *)
(*   SpecRules                reload_rules against evaluate, one field     *)
(*                            access per step;                             *)
(*   SpecScore                risk_worker scoring popped payments;         *)
(*   SpecLongRun              the same, also from 2^24 - 3 payments into   *)
(*                            a run of one entity;                         *)
(*   SpecShard                two threads in evaluate on the sharded map,  *)
(*                            one load or store per step;                  *)
(*   SpecMessage              one message through parse, the structuring   *)
(*                            score and the alert line;                    *)
(*   SpecPipe                 one run of the engine, replay or live:       *)
(*                            ingress, ring1, scorer, ring2, pusher, main; *)
(*   SpecReplayFair           a replay run with a fairly scheduled scorer; *)
(*   SpecStopFair             a run with every thread fairly scheduled;    *)
(*   SpecMain                 startup and shutdown of main: the order in   *)
(*                            which components start and stop, startup     *)
(*                            failures, poll errors and the exit code.     *)
(* Each specification keeps the variables of the others at their initial   *)
(* value.                                                                  *)
(***************************************************************************)
EXTENDS Integers, Naturals, Sequences, FiniteSets, TLC

(***************************************************************************)
(* Bounds of the ring model.                                               *)
(***************************************************************************)
\* log2 of the template parameter Size (Size must be a power of two).
RingBits == 2
\* The producer pushes RingSize + ExtraItems items, so head and tail wrap.
ExtraItems == 2
\* Number of machine words copied by "buffer[i] = item" / "item = buffer[i]"
\* (T is a multi-word struct such as PaymentData; the copy is not atomic).
ItemWords == 2

RingSize == 2 ^ RingBits
MaxItems == RingSize + ExtraItems

VARIABLES
    \* ---- LockFreeRingBuffer<T, Size> ----
    head,        \* std::atomic<size_t> head, written by the producer
    tail,        \* std::atomic<size_t> tail, written by the consumer
    buffer,      \* std::array<T, Size> buffer, each slot ItemWords words
    ppc,         \* producer position inside push
    pcur,        \* push: local current_head
    pw,          \* push: next word of the slot to write
    lastPush,    \* result of the producer's last push call
    cpc,         \* consumer position inside pop
    ccur,        \* pop: local current_tail
    cw,          \* pop: next word of the slot to read
    citem,       \* pop: the caller's output item
    lastPop,     \* result of the consumer's last pop call
    pushed,      \* history: items accepted by successful pushes
    popped       \* history: items returned by successful pops

(***************************************************************************)
(* FastRiskEngine: rule sets, entity state and scoring arithmetic          *)
(*                                                                         *)
(* Weights are floats in the code.  velocity_weight, structuring_weight    *)
(* and baseline are kept in thousandths (0.6f is 600) and scores in units  *)
(* of 1/30000 (ScoreOne is 1.0f), in which every product and quotient of   *)
(* evaluate over the two weight sets is an exact integer.  Amounts are     *)
(* int64 micros, kept as <<major units, micros below one unit>>.           *)
(***************************************************************************)
\* Bounds of the engine model.
MaxReloads == 2
MaxPayments == 10
MaxClock == 4

\* 1.0f in score units; one thousandth of a weight times one thirtieth of a
\* velocity score is one score unit.
ScoreOne == 30 * 1000
VelocityOne == ScoreOne \div 1000

\* risk_engine.hpp line 70: the constructor's rule set (both slots).
DefaultWeights ==
    [velocity_weight |-> 600, structuring_weight |-> 250,
     velocity_threshold |-> 5, structuring_threshold |-> 9000,
     baseline |-> 50]

\* risk_engine.hpp line 76: the rule set every reload publishes.
ReloadedWeights ==
    [velocity_weight |-> 800, structuring_weight |-> 100,
     velocity_threshold |-> 3, structuring_threshold |-> 8000,
     baseline |-> 50]

WeightFields == DOMAIN DefaultWeights

\* The order in which evaluate reads the fields of "w" (lines 141-154);
\* velocity_threshold is read by the comparison and again by the division.
ReadOrder ==
    <<"velocity_threshold", "velocity_threshold", "structuring_threshold",
      "baseline", "velocity_weight", "structuring_weight">>

\* Entity names and amounts (micros) seen by the scorer.
Entities == {"ACME"}
Amounts == {<<1500, 0>>, <<9000, 0>>}

\* Clock ticks are seconds; the window test is "> 1000000000ULL" ns.
OneSecond == 1

\* main.cpp line 32: char data[512]; line 36: LockFreeRingBuffer<IpcMessage, 4096>
AlertCapacity == 512
IpcRingSize == 4096

VARIABLES
    \* ---- FastRiskEngine ----
    rule_sets,          \* ModelWeights rule_sets[2]
    rule_gen,           \* history: which reload wrote each field of each slot
    active_idx,         \* std::atomic<int> active_idx
    risk_map,           \* the shard's map: entity name -> EntityState
    now,                \* steady_clock, in seconds
    \* ---- the rule watcher inside reload_rules ----
    wpc,                \* position inside reload_rules
    wnext,              \* local next_idx
    wtodo,              \* fields of rule_sets[next_idx] not yet stored
    reloads,            \* number of reload_rules calls started
    \* ---- risk_worker / evaluate ----
    spc,                \* position of the scorer
    item,               \* the popped PaymentData
    eidx,               \* evaluate: local idx
    ev,                 \* evaluate: local v
    eread,              \* evaluate: values of w's fields read so far
    eselgen,            \* history: generation in the slot idx selected
    rapid_run,          \* history: observations in a row at most 1 s apart
    last,               \* RiskResult of the last call and what became of it
    transactions_total, \* Metrics::g_transactions_total
    risk_blocks_total,  \* Metrics::g_risk_blocks_total
    drops_total,        \* Metrics::g_drops_total
    ipc_count           \* alerts accepted by g_ipc_buffer

ringVars == <<head, tail, buffer, ppc, pcur, pw, lastPush,
              cpc, ccur, cw, citem, lastPop, pushed, popped>>

engineVars == <<rule_sets, rule_gen, active_idx, risk_map, now,
                wpc, wnext, wtodo, reloads,
                spc, item, eidx, ev, eread, eselgen, rapid_run, last,
                transactions_total, risk_blocks_total, drops_total, ipc_count>>

VARIABLES
    \* ---- one message through IsoParser::parse and the alert formatter ----
    doc,         \* the pugixml tree of the message handed to parse
    dpc,         \* "input", "parsed", "scored" or "formatted"
    decoded,     \* PaymentData out of parse
    parsed_ok,   \* return value of parse
    dst,         \* w.structuring_threshold used by the structuring check
    dscore,      \* structuring_score of the decoded amount
    alert        \* IpcMessage msg: its text and len

decodeVars == <<doc, dpc, decoded, parsed_ok, dst, dscore, alert>>

VARIABLES
    \* ---- the pipeline of main.cpp: ingress -> g_ring_buffer -> risk_worker
    \* ---- -> g_ipc_buffer -> ipc_sender_worker ----
    mode,            \* "replay" (--replay-mode) or "live"
    mainpc,          \* position of main
    force_quit,      \* the stop flag
    running,         \* KafkaIngress::running
    ipc,             \* position of the ingress
    nread,           \* lines read / messages consumed so far
    cur,             \* the ingress's PaymentData pmt
    msg_count,       \* KafkaIngress::consumer_loop msg_count
    commits,         \* consumer->commitAsync calls
    ring1,           \* g_ring_buffer, oldest first
    ring2,           \* g_ipc_buffer, oldest first
    kpc,             \* position of ipc_sender_worker
    sent,            \* history: alerts handed to sock.send
    handed,          \* history: the records handed to sock.send, in order
    send_failed,     \* history: positions in handed of the sends that threw
    decoded_total,   \* history: messages parse accepted
    failed_total,    \* history: messages parse rejected
    pushed_total,    \* history: payments accepted by g_ring_buffer
    abandoned,       \* history: payments given up in the retry loop
    wanted,          \* history: results with score > 0.5
    accepted         \* history: alerts accepted by g_ipc_buffer

pipeVars == <<mode, mainpc, force_quit, running, ipc, nread, cur, msg_count,
              commits, ring1, ring2, kpc, sent, handed, send_failed,
              decoded_total, failed_total, pushed_total, abandoned, wanted,
              accepted>>

VARIABLES
    \* ---- main's start and stop sequence (main.cpp lines 148-197) ----
    started,         \* history: components in the order main started them
    stopped,         \* history: "flag" and components in the order main
                     \* stopped them
    exit_code,       \* main's return value, NotExited before it returns
    metrics_pc,      \* position of MetricsServer::serve
    last_err,        \* latest error code a consume call reported
    polls,           \* consume calls that returned no message
    wlpc,            \* position of RulesLoader::watch_loop
    wrunning         \* RulesLoader::running

lifeVars == <<started, stopped, exit_code, metrics_pc, last_err, polls,
              wlpc, wrunning>>

VARIABLES
    \* ---- FastRiskEngine::shards and the threads inside evaluate ----
    shards,          \* shard index -> [mtx: owner thread or 0, map: name ->
                     \* EntityState], for the shards a thread has locked
    others,          \* shard index -> entries of entities outside Debtors
    t_pc,            \* per thread: position in evaluate
    t_key,           \* per thread: key
    t_shard_idx,     \* per thread: shard_idx
    t_now_ns,        \* per thread: now_ns
    t_last_seen,     \* per thread: last_seen
    t_v,             \* per thread: v
    calls,           \* calls of evaluate begun
    seen_at,         \* history: per name, instant of its latest observation
    run,             \* history: per name, observations in a row at most
                     \* 1 s apart
    given            \* history: per name, the velocities given to the calls
                     \* of that run

shardVars == <<shards, others, t_pc, t_key, t_shard_idx, t_now_ns,
               t_last_seen, t_v, calls, seen_at, run, given>>

vars == <<ringVars, engineVars, decodeVars, pipeVars, lifeVars, shardVars>>

(***************************************************************************)
(* LockFreeRingBuffer                                                      *)
(***************************************************************************)
\* (x) & (Size - 1) for a power-of-two Size.
Mask(x) == x % RingSize

\* The n-th item handed to push: every word carries n, so a torn copy shows.
Item(n) == [w \in 1..ItemWords |-> n]

ZeroItem == [w \in 1..ItemWords |-> 0]

RingInit ==
    /\ head = 0
    /\ tail = 0
    /\ buffer = [i \in 0..(RingSize - 1) |-> ZeroItem]
    /\ ppc = "idle"
    /\ pcur = 0
    /\ pw = 1
    /\ lastPush = "none"
    /\ cpc = "idle"
    /\ ccur = 0
    /\ cw = 1
    /\ citem = ZeroItem
    /\ lastPop = "none"
    /\ pushed = <<>>
    /\ popped = <<>>

\* The item of the push call in progress (the caller retries a refused item).
PushArg == Item(Len(pushed) + 1)

\* push, line 54: current_head = head.load(relaxed)
PushLoadHead ==
    /\ ppc = "idle"
    /\ Len(pushed) < MaxItems
    /\ pcur' = head
    /\ ppc' = "check"
    /\ UNCHANGED <<head, tail, buffer, pw, lastPush,
                   cpc, ccur, cw, citem, lastPop, pushed, popped>>
    /\ UNCHANGED <<engineVars, decodeVars, pipeVars, lifeVars>>
    /\ UNCHANGED shardVars

\* Mutant of PushCheckFull: next_head is compared without "& (Size - 1)", so
\* the full ring is not recognised when head is at the last slot.
PushCheckFull_NoMask ==
    /\ ppc = "check"
    /\ IF pcur + 1 = tail
         THEN /\ ppc' = "idle"
              /\ lastPush' = "full"
              /\ pw' = pw
         ELSE /\ ppc' = "write"
              /\ pw' = 1
              /\ lastPush' = lastPush
    /\ UNCHANGED <<head, tail, buffer, pcur,
                   cpc, ccur, cw, citem, lastPop, pushed, popped>>
    /\ UNCHANGED <<engineVars, decodeVars, pipeVars, lifeVars>>
    /\ UNCHANGED shardVars

\* Mutant of PushCheckFull: the full test is "current_head == tail", the
\* empty test of pop, so the empty ring refuses every push.
PushCheckFull_EmptyIsFull ==
    /\ ppc = "check"
    /\ IF pcur = tail
         THEN /\ ppc' = "idle"
              /\ lastPush' = "full"
              /\ pw' = pw
         ELSE /\ ppc' = "write"
              /\ pw' = 1
              /\ lastPush' = lastPush
    /\ UNCHANGED <<head, tail, buffer, pcur,
                   cpc, ccur, cw, citem, lastPop, pushed, popped>>
    /\ UNCHANGED <<engineVars, decodeVars, pipeVars, lifeVars>>
    /\ UNCHANGED shardVars

\* push, lines 55-59: next_head == tail.load(acquire) -> return false
PushCheckFull ==
    /\ ppc = "check"
    /\ IF Mask(pcur + 1) = tail
         THEN /\ ppc' = "idle"
              /\ lastPush' = "full"
              /\ pw' = pw
         ELSE /\ ppc' = "write"
              /\ pw' = 1
              /\ lastPush' = lastPush
    /\ UNCHANGED <<head, tail, buffer, pcur,
                   cpc, ccur, cw, citem, lastPop, pushed, popped>>
    /\ UNCHANGED <<engineVars, decodeVars, pipeVars, lifeVars>>
    /\ UNCHANGED shardVars

\* Mutant of PushWriteSlot: the item is written to buffer[next_head].
PushWriteSlot_NextHead ==
    /\ ppc = "write"
    /\ buffer' = [buffer EXCEPT ![Mask(pcur + 1)][pw] = PushArg[pw]]
    /\ IF pw = ItemWords
         THEN ppc' = "store" /\ pw' = 1
         ELSE ppc' = "write" /\ pw' = pw + 1
    /\ UNCHANGED <<head, tail, pcur, lastPush,
                   cpc, ccur, cw, citem, lastPop, pushed, popped>>
    /\ UNCHANGED <<engineVars, decodeVars, pipeVars, lifeVars>>
    /\ UNCHANGED shardVars

\* push, line 61: buffer[current_head] = item, one word per step
PushWriteSlot ==
    /\ ppc = "write"
    /\ buffer' = [buffer EXCEPT ![pcur][pw] = PushArg[pw]]
    /\ IF pw = ItemWords
         THEN ppc' = "store" /\ pw' = 1
         ELSE ppc' = "write" /\ pw' = pw + 1
    /\ UNCHANGED <<head, tail, pcur, lastPush,
                   cpc, ccur, cw, citem, lastPop, pushed, popped>>
    /\ UNCHANGED <<engineVars, decodeVars, pipeVars, lifeVars>>
    /\ UNCHANGED shardVars

\* push, lines 62-63: head.store(next_head, release); return true
PushStoreHead ==
    /\ ppc = "store"
    /\ head' = Mask(pcur + 1)
    /\ pushed' = Append(pushed, PushArg)
    /\ lastPush' = "ok"
    /\ ppc' = "idle"
    /\ UNCHANGED <<tail, buffer, pcur, pw,
                   cpc, ccur, cw, citem, lastPop, popped>>
    /\ UNCHANGED <<engineVars, decodeVars, pipeVars, lifeVars>>
    /\ UNCHANGED shardVars

\* pop, line 67: current_tail = tail.load(relaxed)
PopLoadTail ==
    /\ cpc = "idle"
    /\ Len(popped) < MaxItems
    /\ ccur' = tail
    /\ cpc' = "check"
    /\ UNCHANGED <<head, tail, buffer, ppc, pcur, pw, lastPush,
                   cw, citem, lastPop, pushed, popped>>
    /\ UNCHANGED <<engineVars, decodeVars, pipeVars, lifeVars>>
    /\ UNCHANGED shardVars

\* pop, lines 68-70: current_tail == head.load(acquire) -> return false
PopCheckEmpty ==
    /\ cpc = "check"
    /\ IF ccur = head
         THEN /\ cpc' = "idle"
              /\ lastPop' = "empty"
              /\ cw' = cw
         ELSE /\ cpc' = "read"
              /\ cw' = 1
              /\ lastPop' = lastPop
    /\ UNCHANGED <<head, tail, buffer, ppc, pcur, pw, lastPush,
                   ccur, citem, pushed, popped>>
    /\ UNCHANGED <<engineVars, decodeVars, pipeVars, lifeVars>>
    /\ UNCHANGED shardVars

\* pop, line 72: item = buffer[current_tail], one word per step
PopReadSlot ==
    /\ cpc = "read"
    /\ citem' = [citem EXCEPT ![cw] = buffer[ccur][cw]]
    /\ IF cw = ItemWords
         THEN cpc' = "store" /\ cw' = 1
         ELSE cpc' = "read" /\ cw' = cw + 1
    /\ UNCHANGED <<head, tail, buffer, ppc, pcur, pw, lastPush,
                   ccur, lastPop, pushed, popped>>
    /\ UNCHANGED <<engineVars, decodeVars, pipeVars, lifeVars>>
    /\ UNCHANGED shardVars

\* pop, lines 73-74: tail.store((current_tail + 1) & (Size - 1)); return true
PopStoreTail ==
    /\ cpc = "store"
    /\ tail' = Mask(ccur + 1)
    /\ popped' = Append(popped, citem)
    /\ lastPop' = "ok"
    /\ cpc' = "idle"
    /\ UNCHANGED <<head, buffer, ppc, pcur, pw, lastPush,
                   ccur, cw, citem, pushed>>
    /\ UNCHANGED <<engineVars, decodeVars, pipeVars, lifeVars>>
    /\ UNCHANGED shardVars

\* Mutant of is_full: next_head is compared without "& (Size - 1)".
is_full_NoMask == head + 1 = tail

\* is_full, lines 77-81: ((head + 1) & (Size - 1)) == tail
is_full == Mask(head + 1) = tail

Producer == PushLoadHead \/ PushCheckFull \/ PushWriteSlot \/ PushStoreHead

Consumer == PopLoadTail \/ PopCheckEmpty \/ PopReadSlot \/ PopStoreTail

(***************************************************************************)
(* FastRiskEngine and risk_worker                                          *)
(***************************************************************************)
RECURSIVE BitLength(_)
\* Number of binary digits of n.
BitLength(n) == IF n = 0 THEN 0 ELSE 1 + BitLength(n \div 2)

\* n rounded to the nearest value with a 24 bit significand, ties to even
\* (the result of a float operation whose exact result is the integer n).
RoundFloat24(n) ==
    IF BitLength(n) <= 24
      THEN n
      ELSE LET unit == 2 ^ (BitLength(n) - 24)
               q == n \div unit
               r == n % unit
               up == (2 * r > unit) \/ (2 * r = unit /\ q % 2 = 1)
           IN  (IF up THEN q + 1 ELSE q) * unit

\* Line 145: (int64_t)(w.structuring_threshold * 1000000.0f), a float
\* product.  1000000 = 15625 * 64, and multiplying by 64 is exact.
ThresholdMicros(st) ==
    LET n == RoundFloat24(st * 15625)
    IN  <<n \div 15625, (n % 15625) * 64>>

\* Line 146: limit_micros = 10000 * 1000000LL
LimitMicros == <<10000, 0>>

\* int64 comparisons on <<major, micros>> amounts.
AmountLess(a, b) == a[1] < b[1] \/ (a[1] = b[1] /\ a[2] < b[2])

\* Mutant of VelocityScore: the threshold is not doubled.
VelocityScore_NotDoubled(v, vtc, vtd) ==
    IF v > vtc THEN VelocityOne ELSE (v * VelocityOne) \div vtd

\* Mutant of VelocityScore: the ramp divides by the threshold, not by its
\* double, so it ends at 2.0 where the saturated score is 1.0.
VelocityScore_RampNotDoubled(v, vtc, vtd) ==
    IF v > vtc * 2 THEN VelocityOne ELSE (v * VelocityOne) \div vtd

\* Line 141: velocity_score; vtc and vtd are the two reads of
\* w.velocity_threshold.
VelocityScore(v, vtc, vtd) ==
    IF v > vtc * 2 THEN VelocityOne ELSE (v * VelocityOne) \div (vtd * 2)

\* Lines 142-150: structuring_score
StructuringScore(amount, st) ==
    IF ~AmountLess(amount, ThresholdMicros(st)) /\ AmountLess(amount, LimitMicros)
      THEN 1
      ELSE 0

\* Mutant of Clamp: the clamp of line 156 is missing.
Clamp_Missing(total) == total

\* Line 156: if (total_risk > 1.0f) total_risk = 1.0f
Clamp(total) == IF total > ScoreOne THEN ScoreOne ELSE total

\* Lines 152-156: total_risk from the six values r read in ReadOrder.
TotalRisk(r, v, amount) ==
    Clamp(r[4] * VelocityOne
          + VelocityScore(v, r[1], r[2]) * r[5]
          + StructuringScore(amount, r[3]) * VelocityOne * r[6])

\* Mutant of IsBlocked: ">=" in place of ">".
IsBlocked_AtLeast(total) == 10 * total >= 8 * ScoreOne

\* Line 158: total_risk > 0.8f
IsBlocked(total) == 10 * total > 8 * ScoreOne

\* main.cpp line 97: risk.score > 0.5
AlertWanted(score) == 2 * score > ScoreOne

\* The largest value up to which a float holds every integer (24-bit
\* significand): velocity_accumulator is std::atomic<float>.
FloatExact == 2 ^ 24

\* Payments of one entity already scored, at most 1 s apart, when the
\* modelled stretch of a long run begins.
LongRun == FloatExact - 3

\* Mutant of FloatSucc: the accumulator counts exactly, as an integer or a
\* double would.
FloatSucc_Exact(v) == v + 1

\* v += 1.0f on a float: exact below 2^24, absorbed from there on.
FloatSucc(v) == IF v >= 2 ^ 24 THEN v ELSE v + 1

RECURSIVE DecimalDigits(_)
\* Number of characters %lld prints for n >= 0.
DecimalDigits(n) == IF n < 10 THEN 1 ELSE 1 + DecimalDigits(n \div 10)

\* main.cpp lines 99-103: the length snprintf returns for the alert line
\* { "debtor": "%s", "amount": %lld.%06lld, "uetr": "%s" }
AlertLength(pmt) ==
    13 + Len(pmt.debtor_name) + 13 + DecimalDigits(pmt.amount[1]) + 1 + 6
       + 11 + Len(pmt.uetr) + 3

\* Generation held by slot i (its oldest field).
SlotGen(i) ==
    CHOOSE g \in {rule_gen[i][f] : f \in WeightFields} :
        \A f \in WeightFields : g <= rule_gen[i][f]

NoItem == [debtor_name |-> "", uetr |-> "", amount |-> <<0, 0>>]

NoResult == [valid |-> FALSE, score |-> 0, is_blocked |-> FALSE, alert |-> "none"]

\* The engine and the counters after static initialisation.
EngineConstructed ==
    /\ rule_sets = [i \in 0..1 |-> DefaultWeights]
    /\ rule_gen = [i \in 0..1 |-> [f \in WeightFields |-> 0]]
    /\ active_idx = 0
    /\ risk_map = [e \in {} |-> 0]
    /\ now = OneSecond + 1
    /\ wpc = "idle"
    /\ wnext = 0
    /\ wtodo = {}
    /\ reloads = 0
    /\ item = NoItem
    /\ eidx = 0
    /\ ev = 0
    /\ eread = <<>>
    /\ eselgen = 0
    /\ rapid_run = 0
    /\ last = NoResult
    /\ transactions_total = 0
    /\ risk_blocks_total = 0
    /\ drops_total = 0
    /\ ipc_count = 0

EngineInit == EngineConstructed /\ spc = "idle"

\* Mutant of ReloadLoadIdx: the new index is published before the slot is
\* written (the store of line 77 moved in front of line 76).
ReloadLoadIdx_FlipFirst ==
    /\ wpc = "idle"
    /\ reloads < MaxReloads
    /\ wnext' = 1 - active_idx
    /\ active_idx' = 1 - active_idx
    /\ wtodo' = WeightFields
    /\ reloads' = reloads + 1
    /\ wpc' = "write"
    /\ UNCHANGED <<rule_sets, rule_gen, risk_map, now,
                   spc, item, eidx, ev, eread, eselgen, rapid_run, last,
                   transactions_total, risk_blocks_total, drops_total, ipc_count>>
    /\ UNCHANGED <<ringVars, decodeVars, pipeVars, lifeVars>>
    /\ UNCHANGED shardVars

\* reload_rules, line 75: next_idx = !active_idx.load()
ReloadLoadIdx ==
    /\ wpc = "idle"
    /\ reloads < MaxReloads
    /\ wnext' = 1 - active_idx
    /\ wtodo' = WeightFields
    /\ reloads' = reloads + 1
    /\ wpc' = "write"
    /\ UNCHANGED <<rule_sets, rule_gen, active_idx, risk_map, now,
                   spc, item, eidx, ev, eread, eselgen, rapid_run, last,
                   transactions_total, risk_blocks_total, drops_total, ipc_count>>
    /\ UNCHANGED <<ringVars, decodeVars, pipeVars, lifeVars>>
    /\ UNCHANGED shardVars

\* reload_rules, line 76: rule_sets[next_idx] = {...}.  The struct is stored
\* field by field while evaluate may be reading it (a data race), in an order
\* the build chooses.
ReloadWriteField ==
    /\ wpc = "write"
    /\ \E f \in wtodo :
         /\ rule_sets' = [rule_sets EXCEPT ![wnext][f] = ReloadedWeights[f]]
         /\ rule_gen' = [rule_gen EXCEPT ![wnext][f] = reloads]
         /\ wtodo' = wtodo \ {f}
         /\ wpc' = IF wtodo = {f} THEN "flip" ELSE "write"
    /\ UNCHANGED <<active_idx, risk_map, now, wnext, reloads,
                   spc, item, eidx, ev, eread, eselgen, rapid_run, last,
                   transactions_total, risk_blocks_total, drops_total, ipc_count>>
    /\ UNCHANGED <<ringVars, decodeVars, pipeVars, lifeVars>>
    /\ UNCHANGED shardVars

\* reload_rules, line 77: active_idx.store(next_idx, release)
ReloadStoreIdx ==
    /\ wpc = "flip"
    /\ active_idx' = wnext
    /\ wpc' = "idle"
    /\ UNCHANGED <<rule_sets, rule_gen, risk_map, now, wnext, wtodo, reloads,
                   spc, item, eidx, ev, eread, eselgen, rapid_run, last,
                   transactions_total, risk_blocks_total, drops_total, ipc_count>>
    /\ UNCHANGED <<ringVars, decodeVars, pipeVars, lifeVars>>
    /\ UNCHANGED shardVars

\* The steady clock advances.
Tick ==
    /\ now < MaxClock
    /\ now' = now + 1
    /\ UNCHANGED <<rule_sets, rule_gen, active_idx, risk_map,
                   wpc, wnext, wtodo, reloads,
                   spc, item, eidx, ev, eread, eselgen, rapid_run, last,
                   transactions_total, risk_blocks_total, drops_total, ipc_count>>
    /\ UNCHANGED <<ringVars, decodeVars, pipeVars, lifeVars>>
    /\ UNCHANGED shardVars

\* The payment count at which the modelled stretch of the run began: 0, or
\* LongRun when the engine has already scored LongRun payments.
RunStart == IF transactions_total >= LongRun THEN LongRun ELSE 0

\* risk_worker, main.cpp lines 79-81: a payment is popped from g_ring_buffer
\* and Metrics::record_transaction() counts it.
WorkerPop ==
    /\ spc = "idle"
    /\ transactions_total - RunStart < MaxPayments
    /\ \E d \in Entities, a \in Amounts :
         item' = [debtor_name |-> d, uetr |-> "E2E-1", amount |-> a]
    /\ transactions_total' = transactions_total + 1
    /\ eread' = <<>>
    /\ last' = NoResult
    /\ spc' = "load"
    /\ UNCHANGED <<rule_sets, rule_gen, active_idx, risk_map, now,
                   wpc, wnext, wtodo, reloads,
                   eidx, ev, eselgen, rapid_run,
                   risk_blocks_total, drops_total, ipc_count>>
    /\ UNCHANGED <<ringVars, decodeVars, pipeVars, lifeVars>>
    /\ UNCHANGED shardVars

\* evaluate, lines 104-105: idx = active_idx.load(acquire); w = rule_sets[idx]
EvalLoadIdx ==
    /\ spc = "load"
    /\ eidx' = active_idx
    /\ eselgen' = SlotGen(active_idx)
    /\ spc' = "shard"
    /\ UNCHANGED <<rule_sets, rule_gen, active_idx, risk_map, now,
                   wpc, wnext, wtodo, reloads,
                   item, ev, eread, rapid_run, last,
                   transactions_total, risk_blocks_total, drops_total, ipc_count>>
    /\ UNCHANGED <<ringVars, decodeVars, pipeVars, lifeVars>>
    /\ UNCHANGED shardVars

\* Mutant of EvalShardUpdate: the window test is ">=" in place of ">".
EvalShardUpdate_ResetAtOneSecond ==
    /\ spc = "shard"
    /\ LET key == item.debtor_name
           known == key \in DOMAIN risk_map
           state == IF known
                      THEN risk_map[key]
                      ELSE [last_seen_timestamp |-> 0, velocity_accumulator |-> 0]
           acc == IF now - state.last_seen_timestamp >= OneSecond
                    THEN 0
                    ELSE state.velocity_accumulator
           v == IF acc >= 2 ^ 24 THEN acc ELSE acc + 1
       IN  /\ risk_map' = [e \in DOMAIN risk_map \cup {key} |->
                             IF e = key
                               THEN [last_seen_timestamp |-> now,
                                     velocity_accumulator |-> v]
                               ELSE risk_map[e]]
           /\ ev' = v
           /\ rapid_run' = IF known /\ now - state.last_seen_timestamp <= OneSecond
                             THEN rapid_run + 1
                             ELSE 1
    /\ spc' = "read"
    /\ UNCHANGED <<rule_sets, rule_gen, active_idx, now,
                   wpc, wnext, wtodo, reloads,
                   item, eidx, eread, eselgen, last,
                   transactions_total, risk_blocks_total, drops_total, ipc_count>>
    /\ UNCHANGED <<ringVars, decodeVars, pipeVars, lifeVars>>
    /\ UNCHANGED shardVars

\* evaluate, lines 108-138, under the shard mutex: find or insert the entity,
\* reset the accumulator after more than 1 s, store last_seen, v += 1.
EvalShardUpdate ==
    /\ spc = "shard"
    /\ LET key == item.debtor_name
           known == key \in DOMAIN risk_map
           state == IF known
                      THEN risk_map[key]
                      ELSE [last_seen_timestamp |-> 0, velocity_accumulator |-> 0]
           acc == IF now - state.last_seen_timestamp > OneSecond
                    THEN 0
                    ELSE state.velocity_accumulator
           v == FloatSucc(acc)
       IN  /\ risk_map' = [e \in DOMAIN risk_map \cup {key} |->
                             IF e = key
                               THEN [last_seen_timestamp |-> now,
                                     velocity_accumulator |-> v]
                               ELSE risk_map[e]]
           /\ ev' = v
           /\ rapid_run' = IF known /\ now - state.last_seen_timestamp <= OneSecond
                             THEN rapid_run + 1
                             ELSE 1
    /\ spc' = "read"
    /\ UNCHANGED <<rule_sets, rule_gen, active_idx, now,
                   wpc, wnext, wtodo, reloads,
                   item, eidx, eread, eselgen, last,
                   transactions_total, risk_blocks_total, drops_total, ipc_count>>
    /\ UNCHANGED <<ringVars, decodeVars, pipeVars, lifeVars>>
    /\ UNCHANGED shardVars

\* evaluate, lines 141-154: the next read of a field of w = rule_sets[idx]
EvalReadField ==
    /\ spc = "read"
    /\ eread' = Append(eread, rule_sets[eidx][ReadOrder[Len(eread) + 1]])
    /\ spc' = IF Len(eread) + 1 = Len(ReadOrder) THEN "return" ELSE "read"
    /\ UNCHANGED <<rule_sets, rule_gen, active_idx, risk_map, now,
                   wpc, wnext, wtodo, reloads,
                   item, eidx, ev, eselgen, rapid_run, last,
                   transactions_total, risk_blocks_total, drops_total, ipc_count>>
    /\ UNCHANGED <<ringVars, decodeVars, pipeVars, lifeVars>>
    /\ UNCHANGED shardVars

\* evaluate, lines 152-158: return { total_risk, total_risk > 0.8f }
EvalReturn ==
    /\ spc = "return"
    /\ LET total == TotalRisk(eread, ev, item.amount)
       IN  last' = [valid |-> TRUE, score |-> total,
                    is_blocked |-> IsBlocked(total), alert |-> "none"]
    /\ spc' = "handle"
    /\ UNCHANGED <<rule_sets, rule_gen, active_idx, risk_map, now,
                   wpc, wnext, wtodo, reloads,
                   item, eidx, ev, eread, eselgen, rapid_run,
                   transactions_total, risk_blocks_total, drops_total, ipc_count>>
    /\ UNCHANGED <<ringVars, decodeVars, pipeVars, lifeVars>>
    /\ UNCHANGED shardVars

\* Mutant of WorkerHandle: record_block is called for every alert.
WorkerHandle_BlockPerAlert ==
    /\ spc = "handle"
    /\ risk_blocks_total' = IF AlertWanted(last.score)
                              THEN risk_blocks_total + 1
                              ELSE risk_blocks_total
    /\ IF AlertWanted(last.score)
         THEN IF AlertLength(item) > 0 /\ AlertLength(item) < AlertCapacity
                THEN IF ipc_count < IpcRingSize - 1
                       THEN /\ ipc_count' = ipc_count + 1
                            /\ drops_total' = drops_total
                            /\ last' = [last EXCEPT !.alert = "pushed"]
                       ELSE /\ ipc_count' = ipc_count
                            /\ drops_total' = drops_total + 1
                            /\ last' = [last EXCEPT !.alert = "dropped"]
                ELSE /\ UNCHANGED <<ipc_count, drops_total>>
                     /\ last' = [last EXCEPT !.alert = "unformatted"]
         ELSE /\ UNCHANGED <<ipc_count, drops_total>>
              /\ last' = last
    /\ spc' = "idle"
    /\ UNCHANGED <<rule_sets, rule_gen, active_idx, risk_map, now,
                   wpc, wnext, wtodo, reloads,
                   item, eidx, ev, eread, eselgen, rapid_run,
                   transactions_total>>
    /\ UNCHANGED <<ringVars, decodeVars, pipeVars, lifeVars>>
    /\ UNCHANGED shardVars

\* risk_worker, main.cpp lines 89-111: record_block when blocked; when
\* score > 0.5 format the alert and push it to g_ipc_buffer, record_drop when
\* the push is refused.
WorkerHandle ==
    /\ spc = "handle"
    /\ risk_blocks_total' = IF last.is_blocked
                              THEN risk_blocks_total + 1
                              ELSE risk_blocks_total
    /\ IF AlertWanted(last.score)
         THEN IF AlertLength(item) > 0 /\ AlertLength(item) < AlertCapacity
                THEN IF ipc_count < IpcRingSize - 1
                       THEN /\ ipc_count' = ipc_count + 1
                            /\ drops_total' = drops_total
                            /\ last' = [last EXCEPT !.alert = "pushed"]
                       ELSE /\ ipc_count' = ipc_count
                            /\ drops_total' = drops_total + 1
                            /\ last' = [last EXCEPT !.alert = "dropped"]
                ELSE /\ UNCHANGED <<ipc_count, drops_total>>
                     /\ last' = [last EXCEPT !.alert = "unformatted"]
         ELSE /\ UNCHANGED <<ipc_count, drops_total>>
              /\ last' = last
    /\ spc' = "idle"
    /\ UNCHANGED <<rule_sets, rule_gen, active_idx, risk_map, now,
                   wpc, wnext, wtodo, reloads,
                   item, eidx, ev, eread, eselgen, rapid_run,
                   transactions_total>>
    /\ UNCHANGED <<ringVars, decodeVars, pipeVars, lifeVars>>
    /\ UNCHANGED shardVars

Watcher == ReloadLoadIdx \/ ReloadWriteField \/ ReloadStoreIdx

Scorer ==
    \/ WorkerPop
    \/ EvalLoadIdx
    \/ EvalShardUpdate
    \/ EvalReadField
    \/ EvalReturn
    \/ WorkerHandle
(***************************************************************************)
(* IsoParser::parse and the alert line of risk_worker                      *)
(*                                                                         *)
(* Text is a sequence of one-character strings. An amount in micros keeps  *)
(* the representation <<major, micros>> of the engine model; a negative    *)
(* amount has both components negated.                                     *)
(***************************************************************************)
\* Length of the over-long names and identifiers offered to parse.
LongTextLen == 100

\* hft_core.hpp lines 85-88: char debtor_name[64], creditor_name[64],
\* currency[4], uetr[37]; the last byte of each holds the NUL.
NameBytes == 63
UetrBytes == 36
CurrencyBytes == 3
\* hft_core.hpp line 167: digits < 6; line 180: integrals * 1000000
FractionDigits == 6
MicrosPerUnit == 1000000

AlertOpen == <<"{", " ", "\"", "d", "e", "b", "t", "o", "r", "\"", ":", " ", "\"">>
AlertAmountKey == <<"\"", ",", " ", "\"", "a", "m", "o", "u", "n", "t", "\"", ":", " ">>
AlertUetrKey == <<",", " ", "\"", "u", "e", "t", "r", "\"", ":", " ", "\"">>
AlertClose == <<"\"", " ", "}">>
Eur == <<"E", "U", "R">>
Usd == <<"U", "S", "D">>
Gbp == <<"G", "B", "P">>

DigitChars == <<"0", "1", "2", "3", "4", "5", "6", "7", "8", "9">>

\* *p >= '0' && *p <= '9'
IsDigit(c) == \E i \in 1..Len(DigitChars) : DigitChars[i] = c

\* *p - '0'
DigitValue(c) == (CHOOSE i \in 1..Len(DigitChars) : DigitChars[i] = c) - 1

\* A present node / attribute with its text, and an absent one (pugixml
\* hands out an empty node whose text is "").
Node(t) == [present |-> TRUE, text |-> t]
Absent == [present |-> FALSE, text |-> <<>>]

\* strncpy(dst, src, n); dst[n] = '\0': the C string left in dst.
Strncpy_OneMore(src, n) ==
    IF Len(src) > n THEN SubSeq(src, 1, n + 1) ELSE src
Strncpy(src, n) ==
    IF Len(src) > n THEN SubSeq(src, 1, n) ELSE src

\* strcmp(ccy, "EUR") != 0 && strcmp(ccy, "USD") != 0 && strcmp(ccy, "GBP")
\* != 0 is the rejection; CurrencyAllowed is its negation.
CurrencyAllowed_AnyCode(ccy) == TRUE
CurrencyAllowed(ccy) == ccy = Eur \/ ccy = Usd \/ ccy = Gbp

\* The two digit loops of parse (lines 161-164 and 170-174): scan digits
\* from position p, at most left of them; the result is <<value, next p>>.
RECURSIVE ScanDigits(_, _, _, _)
ScanDigits(s, p, acc, left) ==
    IF p <= Len(s) /\ left > 0 /\ IsDigit(s[p])
      THEN ScanDigits(s, p + 1, (acc * 10) + DigitValue(s[p]), left - 1)
      ELSE <<acc, p>>

\* while (digits < 6) { fractionals *= 10; digits++; }
RECURSIVE PadFraction(_, _)
PadFraction_None(fractionals, digits) == fractionals
PadFraction(fractionals, digits) ==
    IF digits < FractionDigits
      THEN PadFraction(fractionals * 10, digits + 1)
      ELSE fractionals

\* parse, lines 153-180: sign * (integrals * 1000000 + fractionals). The
\* 64-bit sum is kept as its quotient and remainder by 1000000.
ParseAmount(s) ==
    LET neg == Len(s) >= 1 /\ s[1] = "-"
        sign == IF neg THEN -1 ELSE 1
        p0 == IF neg THEN 2 ELSE 1
        int == ScanDigits(s, p0, 0, Len(s))
        p1 == int[2]
        dot == p1 <= Len(s) /\ s[p1] = "."
        frac == ScanDigits(s, p1 + 1, 0, FractionDigits)
        fractionals == IF dot
                         THEN PadFraction(frac[1], frac[2] - (p1 + 1))
                         ELSE 0
    IN  <<sign * (int[1] + (fractionals \div MicrosPerUnit)),
          sign * (fractionals % MicrosPerUnit)>>

\* out.amount <= 0 is the rejection; AmountPositive is its negation.
AmountPositive(a) == a[1] > 0 \/ (a[1] = 0 /\ a[2] > 0)

\* PaymentData before parse wrote to it (the tests zero it).
ZeroPayment == [debtor_name |-> <<>>, creditor_name |-> <<>>,
                currency |-> <<>>, uetr |-> <<>>,
                amount |-> <<0, 0>>, valid_schema |-> FALSE]

\* IsoParser::parse(xml, len, out): the return value and out. Fields of out
\* written before a failing test stay written.
Parse(d, out) ==
    LET uetr_node == IF d.uetr.present THEN d.uetr ELSE d.e2e
        o1 == [out EXCEPT !.uetr = Strncpy(uetr_node.text, UetrBytes)]
        o2 == [o1 EXCEPT
                 !.debtor_name = Strncpy(d.dbtr_nm.text, NameBytes),
                 !.creditor_name = Strncpy(d.cdtr_nm.text, NameBytes)]
        ccy == d.ccy.text
        o3 == [o2 EXCEPT !.currency = Strncpy(ccy, CurrencyBytes)]
        amt_str == d.instd_amt.text
        o4 == [o3 EXCEPT !.amount = ParseAmount(amt_str)]
        o5 == [o4 EXCEPT !.valid_schema = TRUE]
    IN  IF ~d.xml_ok \/ ~d.root
          THEN [ok |-> FALSE, out |-> out]
        ELSE IF d.cct = "none" \/ d.pmt_inf = "none"
          THEN [ok |-> FALSE, out |-> out]
        ELSE IF ~d.pmt_id \/ ~uetr_node.present
          THEN [ok |-> FALSE, out |-> out]
        ELSE IF ~d.dbtr_nm.present \/ ~d.cdtr_nm.present
          THEN [ok |-> FALSE, out |-> o1]
        ELSE IF ~d.instd_amt.present
          THEN [ok |-> FALSE, out |-> o2]
        ELSE IF Len(ccy) # CurrencyBytes
          THEN [ok |-> FALSE, out |-> o2]
        ELSE IF ~CurrencyAllowed(ccy)
          THEN [ok |-> FALSE, out |-> o2]
        ELSE IF amt_str = <<>>
          THEN [ok |-> FALSE, out |-> o3]
        ELSE IF ~AmountPositive(o4.amount)
          THEN [ok |-> FALSE, out |-> o4]
        ELSE [ok |-> TRUE, out |-> o5]

\* printf's %lld of a value >= 0.
RECURSIVE DecimalText(_)
DecimalText(n) ==
    IF n < 10
      THEN <<DigitChars[n + 1]>>
      ELSE DecimalText(n \div 10) \o <<DigitChars[(n % 10) + 1]>>

\* printf's %0<width>lld of a value >= 0.
ZeroPadded(n, width) ==
    LET t == DecimalText(n)
    IN  IF Len(t) < width
          THEN [i \in 1..(width - Len(t)) |-> "0"] \o t
          ELSE t

\* std::abs
Abs(x) == IF x < 0 THEN -x ELSE x

\* "%lld.%06lld" of amount / 1000000 and std::abs(amount % 1000000)
AlertAmountText_NoPad(amount) ==
    DecimalText(amount[1]) \o <<".">> \o DecimalText(Abs(amount[2]))
AlertAmountText(amount) ==
    DecimalText(amount[1]) \o <<".">> \o ZeroPadded(Abs(amount[2]), FractionDigits)

\* The text snprintf writes for the alert of payment p (main.cpp 99-103).
AlertText(p) ==
    AlertOpen \o p.debtor_name \o AlertAmountKey \o AlertAmountText(p.amount)
      \o AlertUetrKey \o p.uetr \o AlertClose

NoAlert == [len |-> 0, text |-> <<>>]

\* Messages offered to parse.
AmountTexts ==
    { <<"1", "5", "0", "0", ".", "0", "0">>,
      <<"0", ".", "0", "1">>,
      <<"0">>,
      <<"-", "5", "0", "0", ".", "0", "0">>,
      <<"9", "0", "0", "0", ".", "0", "0">>,
      <<"9", "0", "0", "0">>,
      <<"8", "9", "9", "9", ".", "9", "9", "9", "9", "9", "9">>,
      <<"8", "9", "9", "9", ".", "9", "9", "9", "4", "8", "8">>,
      <<"8", "9", "9", "9", ".", "9", "9", "9", "4", "8", "7">>,
      <<"1", "0", "0", "0", "0">>,
      <<"9", "9", "9", "9", ".", "9", "9", "9", "9", "9", "9">>,
      <<"0", ".", "5">>,
      <<".", "5">>,
      <<"5", ".">>,
      <<"0", "0", "7", ".", "1", "0">>,
      <<"1", ".", "1", "2", "3", "4", "5", "6", "7">>,
      <<"1", ".", "9", "9", "9", "9", "9", "9", "9">>,
      <<"0", ".", "0", "0", "0", "0", "0", "0", "9">>,
      <<>>,
      <<"a", "b", "c">>,
      <<"1", "2", "a", "b", "c">>,
      <<"-", "0", ".", "0", "1">>,
      <<"0", ".", "0", "0", "0", "0", "0", "1">>,
      <<"8", "0", "0", "0">>,
      <<"7", "9", "9", "9", ".", "9", "9", "9", "9", "9", "9">>,
      <<"+", "5">> }

ShortName == <<"A", "C", "M", "E">>
OtherName == <<"B", "a", "n", "k">>
ShortUetr == <<"E", "2", "E", "-", "1">>

\* Text of n bytes in which no two neighbouring bytes are equal.
TextOfLen(n) == [i \in 1..n |-> DigitChars[(i % 10) + 1]]

DebtorNames == {ShortName, TextOfLen(NameBytes), TextOfLen(NameBytes + 1),
                TextOfLen(LongTextLen)}

CcyAttributes == {Node(Eur), Node(Usd), Node(Gbp),
                  Node(<<"X", "Y", "Z">>), Node(<<"e", "u", "r">>),
                  Node(<<"E", "U">>), Node(<<"E", "U", "R", "O">>),
                  Node(<<>>), Absent}

\* The pacs.008 message of the tests with the given amount text, Ccy
\* attribute and debtor name.
Message(amt, ccy, dbtr) ==
    [xml_ok |-> TRUE, root |-> TRUE,
     cct |-> "CstmrCdtTrfinitn", pmt_inf |-> "PmtInf", pmt_id |-> TRUE,
     uetr |-> Absent, e2e |-> Node(ShortUetr),
     dbtr_nm |-> Node(dbtr), cdtr_nm |-> Node(OtherName),
     instd_amt |-> Node(amt), ccy |-> ccy]

ValidMessage == Message(<<"9", "0", "0", "0", ".", "0", "0">>, Node(Eur), ShortName)

\* ValidMessage with one part changed, as in test_iso_parser.cpp.
Variants ==
    { [ValidMessage EXCEPT !.xml_ok = FALSE],
      [ValidMessage EXCEPT !.root = FALSE],
      [ValidMessage EXCEPT !.cct = "none"],
      [ValidMessage EXCEPT !.cct = "FIToFICdtTrf", !.pmt_inf = "CdtTrfTxInf"],
      [ValidMessage EXCEPT !.pmt_inf = "none"],
      [ValidMessage EXCEPT !.pmt_id = FALSE],
      [ValidMessage EXCEPT !.e2e = Absent],
      [ValidMessage EXCEPT !.uetr = Node(TextOfLen(UetrBytes))],
      [ValidMessage EXCEPT !.uetr = Node(TextOfLen(UetrBytes + 1))],
      [ValidMessage EXCEPT !.uetr = Node(TextOfLen(LongTextLen)), !.e2e = Absent],
      [ValidMessage EXCEPT !.dbtr_nm = Absent],
      [ValidMessage EXCEPT !.cdtr_nm = Absent],
      [ValidMessage EXCEPT !.dbtr_nm = Node(<<>>)],
      [ValidMessage EXCEPT !.cdtr_nm = Node(TextOfLen(NameBytes))],
      [ValidMessage EXCEPT !.cdtr_nm = Node(TextOfLen(NameBytes + 1))],
      [ValidMessage EXCEPT !.cdtr_nm = Node(TextOfLen(LongTextLen))],
      [ValidMessage EXCEPT !.dbtr_nm = Node(TextOfLen(LongTextLen)),
                           !.cdtr_nm = Node(TextOfLen(LongTextLen))],
      [ValidMessage EXCEPT !.instd_amt = Absent] }

\* The largest amount text whose integral part the model's integers hold
\* (an int64 holds three more digits).
LargestAmountText ==
    <<"2", "1", "4", "7", "4", "8", "3", "6", "4", "7", ".",
      "9", "9", "9", "9", "9", "9">>

\* Messages whose alert line is the longest: debtor name and UETR fill (or
\* overflow) their fields and the amount has the most digits.
LargestMessages ==
    { [Message(LargestAmountText, Node(Eur), dbtr) EXCEPT !.uetr = Node(u)] :
        dbtr \in {TextOfLen(NameBytes), TextOfLen(LongTextLen)},
        u \in {TextOfLen(UetrBytes), TextOfLen(LongTextLen)} }

Messages ==
    { Message(amt, ccy, dbtr) :
        amt \in AmountTexts, ccy \in CcyAttributes, dbtr \in DebtorNames }
      \cup Variants \cup LargestMessages

\* No message is in the decoder (the state of the other specifications).
DecodeIdle ==
    /\ doc = ValidMessage
    /\ dpc = "idle"
    /\ decoded = ZeroPayment
    /\ parsed_ok = FALSE
    /\ dst = 0
    /\ dscore = 0
    /\ alert = NoAlert

\* A message arrives.
DecodeInit ==
    /\ doc \in Messages
    /\ dpc = "input"
    /\ decoded = ZeroPayment
    /\ parsed_ok = FALSE
    /\ dst = 0
    /\ dscore = 0
    /\ alert = NoAlert

\* IsoParser::parse(line.c_str(), line.size(), pmt)
MsgParse ==
    /\ dpc = "input"
    /\ LET r == Parse(doc, decoded)
       IN  /\ parsed_ok' = r.ok
           /\ decoded' = r.out
    /\ dpc' = "parsed"
    /\ UNCHANGED <<doc, dst, dscore, alert>>
    /\ UNCHANGED <<ringVars, engineVars, pipeVars, lifeVars>>
    /\ UNCHANGED shardVars

\* evaluate, lines 142-150, on the amount of a decoded payment, with the
\* structuring_threshold of the default or of the reloaded weights.
MsgScore ==
    /\ dpc = "parsed"
    /\ parsed_ok
    /\ \E w \in {DefaultWeights, ReloadedWeights} :
         /\ dst' = w.structuring_threshold
         /\ dscore' = StructuringScore(decoded.amount, w.structuring_threshold)
    /\ dpc' = "scored"
    /\ UNCHANGED <<doc, decoded, parsed_ok, alert>>
    /\ UNCHANGED <<ringVars, engineVars, pipeVars, lifeVars>>
    /\ UNCHANGED shardVars

\* risk_worker, main.cpp lines 98-105: snprintf into msg.data, msg.len = len
\* when 0 < len < 512.
MsgFormat ==
    /\ dpc = "scored"
    /\ LET len == AlertLength(decoded)
       IN  alert' = IF len > 0 /\ len < AlertCapacity
                      THEN [len |-> len, text |-> AlertText(decoded)]
                      ELSE NoAlert
    /\ dpc' = "formatted"
    /\ UNCHANGED <<doc, decoded, parsed_ok, dst, dscore>>
    /\ UNCHANGED <<ringVars, engineVars, pipeVars, lifeVars>>
    /\ UNCHANGED shardVars

\* risk_worker, main.cpp lines 104-109: a line with 0 < len < 512 is pushed
\* to g_ipc_buffer, which is empty here and accepts it; any other line is
\* not pushed.
MsgPush ==
    /\ dpc = "formatted"
    /\ IF alert.len > 0
         THEN /\ ring2' = Append(ring2, [len |-> alert.len, data |-> alert.text])
              /\ accepted' = accepted + 1
         ELSE UNCHANGED <<ring2, accepted>>
    /\ dpc' = "pushed"
    /\ UNCHANGED <<doc, decoded, parsed_ok, dst, dscore, alert>>
    /\ UNCHANGED <<mode, mainpc, force_quit, running, ipc, nread, cur,
                   msg_count, commits, ring1, kpc, sent, handed,
                   send_failed, decoded_total,
                   failed_total, pushed_total, abandoned, wanted>>
    /\ UNCHANGED <<ringVars, engineVars, lifeVars>>
    /\ UNCHANGED shardVars

(***************************************************************************)
(* The pipeline of main.cpp                                                *)
(*                                                                         *)
(* g_ring_buffer (ring1) and g_ipc_buffer (ring2) are LockFreeRingBuffers  *)
(* of Size RingSize; a push or a pop is one step here (SpecRing checks the *)
(* steps inside them). evaluate is one step: the pipeline never calls      *)
(* reload_rules and the shard is locked during the update.                 *)
(***************************************************************************)
\* Lines of the replay file / messages of the topic.
MaxLines == 7

\* kafka_ingress.hpp line 104: msg_count % 1000 == 0
CommitEvery == 1000

\* sock.send calls that throw in one run.
MaxSendFailures == 1

\* The n-th decodable message carries n as its EndToEndId; the messages
\* offered at that point of the input.
LineMessages(n) ==
    LET m == [ValidMessage EXCEPT !.e2e = Node(DecimalText(n))]
    IN  { m,
          [m EXCEPT !.instd_amt = Node(<<"1", "5", "0", "0", ".", "0", "0">>),
                    !.ccy = Node(Usd)],
          [m EXCEPT !.ccy = Node(<<"X", "Y", "Z">>)],
          [m EXCEPT !.instd_amt = Node(<<"-", "5", "0", "0", ".", "0", "0">>)],
          [m EXCEPT !.dbtr_nm = Absent],
          [m EXCEPT !.xml_ok = FALSE] }

\* is_full: ((head + 1) & (Size - 1)) == tail, Size - 1 items outstanding.
RingFull(ring) == Len(ring) = RingSize - 1

\* The process has not returned from main.
Alive == mainpc # "exited"

pipeRest == <<rule_sets, rule_gen, active_idx, now, wpc, wnext, wtodo, reloads,
              eidx, eread, eselgen, rapid_run, ipc_count>>

\* Nothing of the pipeline runs (the state of the other specifications).
PipeIdle ==
    /\ mode = "replay"
    /\ mainpc = "exited"
    /\ force_quit = FALSE
    /\ running = FALSE
    /\ ipc = "done"
    /\ nread = 0
    /\ cur = ZeroPayment
    /\ msg_count = 0
    /\ commits = 0
    /\ ring1 = <<>>
    /\ ring2 = <<>>
    /\ kpc = "exited"
    /\ sent = 0
    /\ handed = <<>>
    /\ send_failed = {}
    /\ decoded_total = 0
    /\ failed_total = 0
    /\ pushed_total = 0
    /\ abandoned = 0
    /\ wanted = 0
    /\ accepted = 0

\* main after it started the pusher thread, the scorer thread and the
\* ingress (main.cpp lines 172-188), in replay or in live mode.
PipeInit ==
    /\ mode \in {"replay", "live"}
    /\ mainpc = "run"
    /\ force_quit = FALSE
    /\ running = (mode = "live")
    /\ ipc = "read"
    /\ nread = 0
    /\ cur = ZeroPayment
    /\ msg_count = 0
    /\ commits = 0
    /\ ring1 = <<>>
    /\ ring2 = <<>>
    /\ kpc = "connect"
    /\ sent = 0
    /\ handed = <<>>
    /\ send_failed = {}
    /\ decoded_total = 0
    /\ failed_total = 0
    /\ pushed_total = 0
    /\ abandoned = 0
    /\ wanted = 0
    /\ accepted = 0

\* ---- FileIngress::run (main.cpp lines 127-145), on main's thread ----
\* getline gave a line and force_quit is unset: parse it; a decoded payment
\* goes to the push loop, a rejected line is skipped.
FileReadLine_IgnoreResult ==
    /\ Alive /\ mode = "replay" /\ ipc = "read"
    /\ ~force_quit
    /\ nread < MaxLines
    /\ \E m \in LineMessages(decoded_total + 1) :
         LET r == Parse(m, ZeroPayment)
         IN  /\ cur' = r.out
             /\ ipc' = "push"
             /\ decoded_total' = IF r.ok THEN decoded_total + 1 ELSE decoded_total
             /\ failed_total' = IF r.ok THEN failed_total ELSE failed_total + 1
    /\ nread' = nread + 1
    /\ UNCHANGED <<mode, mainpc, force_quit, running, msg_count, commits,
                   ring1, ring2, kpc, sent, handed,
                   send_failed, pushed_total, abandoned, wanted,
                   accepted>>
    /\ UNCHANGED <<ringVars, engineVars, decodeVars, lifeVars>>
    /\ UNCHANGED shardVars

FileReadLine ==
    /\ Alive /\ mode = "replay" /\ ipc = "read"
    /\ ~force_quit
    /\ nread < MaxLines
    /\ \E m \in LineMessages(decoded_total + 1) :
         LET r == Parse(m, ZeroPayment)
         IN  IF r.ok
               THEN /\ cur' = r.out
                    /\ ipc' = "push"
                    /\ decoded_total' = decoded_total + 1
                    /\ failed_total' = failed_total
               ELSE /\ cur' = ZeroPayment
                    /\ ipc' = "read"
                    /\ decoded_total' = decoded_total
                    /\ failed_total' = failed_total + 1
    /\ nread' = nread + 1
    /\ UNCHANGED <<mode, mainpc, force_quit, running, msg_count, commits,
                   ring1, ring2, kpc, sent, handed,
                   send_failed, pushed_total, abandoned, wanted,
                   accepted>>
    /\ UNCHANGED <<ringVars, engineVars, decodeVars, lifeVars>>
    /\ UNCHANGED shardVars

\* getline fails (end of file) or force_quit is set: run returns.
FileEnd ==
    /\ Alive /\ mode = "replay" /\ ipc = "read"
    /\ ipc' = "done"
    /\ UNCHANGED <<mode, mainpc, force_quit, running, nread, cur, msg_count,
                   commits, ring1, ring2, kpc, sent, handed,
                   send_failed, decoded_total,
                   failed_total, pushed_total, abandoned, wanted, accepted>>
    /\ UNCHANGED <<ringVars, engineVars, decodeVars, lifeVars>>
    /\ UNCHANGED shardVars

\* ring_buffer.push(pmt) in the loop of line 139: accepted, or refused
\* because the ring is full.
FilePush_DiscardWhenFull ==
    /\ Alive /\ mode = "replay" /\ ipc = "push"
    /\ IF RingFull(ring1)
         THEN /\ ipc' = "read"
              /\ UNCHANGED <<ring1, pushed_total>>
              /\ cur' = ZeroPayment
         ELSE /\ ring1' = Append(ring1, cur)
              /\ pushed_total' = pushed_total + 1
              /\ ipc' = "read"
              /\ cur' = ZeroPayment
    /\ UNCHANGED <<mode, mainpc, force_quit, running, nread, msg_count,
                   commits, ring2, kpc, sent, handed,
                   send_failed, decoded_total, failed_total,
                   abandoned, wanted, accepted>>
    /\ UNCHANGED <<ringVars, engineVars, decodeVars, lifeVars>>
    /\ UNCHANGED shardVars

FilePush ==
    /\ Alive /\ mode = "replay" /\ ipc = "push"
    /\ IF RingFull(ring1)
         THEN /\ ipc' = "retry"
              /\ UNCHANGED <<ring1, pushed_total, cur>>
         ELSE /\ ring1' = Append(ring1, cur)
              /\ pushed_total' = pushed_total + 1
              /\ ipc' = "read"
              /\ cur' = ZeroPayment
    /\ UNCHANGED <<mode, mainpc, force_quit, running, nread, msg_count,
                   commits, ring2, kpc, sent, handed,
                   send_failed, decoded_total, failed_total,
                   abandoned, wanted, accepted>>
    /\ UNCHANGED <<ringVars, engineVars, decodeVars, lifeVars>>
    /\ UNCHANGED shardVars

\* "&& !force_quit" after a refused push: yield and push again, or leave
\* the loop with the payment unpushed.
FileRetry ==
    /\ Alive /\ mode = "replay" /\ ipc = "retry"
    /\ IF force_quit
         THEN /\ ipc' = "read"
              /\ cur' = ZeroPayment
              /\ abandoned' = abandoned + 1
         ELSE /\ ipc' = "push"
              /\ UNCHANGED <<cur, abandoned>>
    /\ UNCHANGED <<mode, mainpc, force_quit, running, nread, msg_count,
                   commits, ring1, ring2, kpc, sent, handed,
                   send_failed, decoded_total,
                   failed_total, pushed_total, wanted, accepted>>
    /\ UNCHANGED <<ringVars, engineVars, decodeVars, lifeVars>>
    /\ UNCHANGED shardVars

\* ---- KafkaIngress::consumer_loop (kafka_ingress.hpp lines 81-119) ----
\* running && !force_quit, and consume returned a message: parse it.
KafkaConsume ==
    /\ Alive /\ mode = "live" /\ ipc = "read"
    /\ running /\ ~force_quit
    /\ nread < MaxLines
    /\ \E m \in LineMessages(decoded_total + 1) :
         LET r == Parse(m, cur)
         IN  IF r.ok
               THEN /\ cur' = r.out
                    /\ ipc' = "push"
                    /\ decoded_total' = decoded_total + 1
                    /\ failed_total' = failed_total
               ELSE /\ cur' = r.out
                    /\ ipc' = "read"
                    /\ decoded_total' = decoded_total
                    /\ failed_total' = failed_total + 1
    /\ nread' = nread + 1
    /\ UNCHANGED <<mode, mainpc, force_quit, running, msg_count, commits,
                   ring1, ring2, kpc, sent, handed,
                   send_failed, pushed_total, abandoned, wanted,
                   accepted>>
    /\ UNCHANGED <<ringVars, engineVars, decodeVars, lifeVars>>
    /\ UNCHANGED shardVars

\* The loop condition running && !force_quit is false: the thread ends.
KafkaLeave ==
    /\ Alive /\ mode = "live" /\ ipc = "read"
    /\ ~(running /\ ~force_quit)
    /\ ipc' = "done"
    /\ UNCHANGED <<mode, mainpc, force_quit, running, nread, cur, msg_count,
                   commits, ring1, ring2, kpc, sent, handed,
                   send_failed, decoded_total,
                   failed_total, pushed_total, abandoned, wanted, accepted>>
    /\ UNCHANGED <<ringVars, engineVars, decodeVars, lifeVars>>
    /\ UNCHANGED shardVars

\* msg_count++; if (msg_count % 1000 == 0) commitAsync (lines 100-103)
CountMessage ==
    /\ msg_count' = msg_count + 1
    /\ commits' = IF (msg_count + 1) % CommitEvery = 0
                    THEN commits + 1
                    ELSE commits

\* ring_buffer.push(pmt) in the loop of line 96.
KafkaPush ==
    /\ Alive /\ mode = "live" /\ ipc = "push"
    /\ IF RingFull(ring1)
         THEN /\ ipc' = "retry"
              /\ UNCHANGED <<ring1, pushed_total, msg_count, commits>>
         ELSE /\ ring1' = Append(ring1, cur)
              /\ pushed_total' = pushed_total + 1
              /\ ipc' = "read"
              /\ CountMessage
    /\ UNCHANGED <<mode, mainpc, force_quit, running, nread, cur,
                   ring2, kpc, sent, handed,
                   send_failed, decoded_total, failed_total,
                   abandoned, wanted, accepted>>
    /\ UNCHANGED <<ringVars, engineVars, decodeVars, lifeVars>>
    /\ UNCHANGED shardVars

\* "&& running" after a refused push: yield and push again, or leave the
\* loop with the payment unpushed (msg_count is incremented all the same).
KafkaRetry ==
    /\ Alive /\ mode = "live" /\ ipc = "retry"
    /\ IF ~running
         THEN /\ ipc' = "read"
              /\ abandoned' = abandoned + 1
              /\ CountMessage
         ELSE /\ ipc' = "push"
              /\ UNCHANGED <<abandoned, msg_count, commits>>
    /\ UNCHANGED <<mode, mainpc, force_quit, running, nread, cur,
                   ring1, ring2, kpc, sent, handed,
                   send_failed, decoded_total,
                   failed_total, pushed_total, wanted, accepted>>
    /\ UNCHANGED <<ringVars, engineVars, decodeVars, lifeVars>>
    /\ UNCHANGED shardVars

\* ---- risk_worker (main.cpp lines 73-119) ----
\* evaluate, lines 108-138: the shard's map after the observation of key at
\* time t, and the velocity v of that observation.
Observe(map, key, t) ==
    LET state == IF key \in DOMAIN map
                   THEN map[key]
                   ELSE [last_seen_timestamp |-> 0, velocity_accumulator |-> 0]
        acc == IF t - state.last_seen_timestamp > OneSecond
                 THEN 0
                 ELSE state.velocity_accumulator
        v == FloatSucc(acc)
    IN  [v |-> v,
         map |-> [e \in DOMAIN map \cup {key} |->
                    IF e = key
                      THEN [last_seen_timestamp |-> t, velocity_accumulator |-> v]
                      ELSE map[e]]]

\* The fields of w = rule_sets[active_idx] in the order evaluate reads them.
ActiveWeights == [i \in 1..Len(ReadOrder) |-> rule_sets[active_idx][ReadOrder[i]]]

\* g_ring_buffer.pop(item) succeeded: record_transaction and evaluate.
ScorerPop ==
    /\ Alive /\ spc = "idle"
    /\ ring1 # <<>>
    /\ item' = Head(ring1)
    /\ ring1' = Tail(ring1)
    /\ transactions_total' = transactions_total + 1
    /\ LET o == Observe(risk_map, Head(ring1).debtor_name, now)
           total == TotalRisk(ActiveWeights, o.v, Head(ring1).amount)
       IN  /\ risk_map' = o.map
           /\ ev' = o.v
           /\ last' = [valid |-> TRUE, score |-> total,
                       is_blocked |-> IsBlocked(total), alert |-> "none"]
           /\ wanted' = IF AlertWanted(total) THEN wanted + 1 ELSE wanted
    /\ spc' = "handle"
    /\ UNCHANGED <<risk_blocks_total, drops_total>>
    /\ UNCHANGED pipeRest
    /\ UNCHANGED <<mode, mainpc, force_quit, running, ipc, nread, cur,
                   msg_count, commits, ring2, kpc, sent, handed,
                   send_failed, decoded_total,
                   failed_total, pushed_total, abandoned, accepted>>
    /\ UNCHANGED <<ringVars, decodeVars, lifeVars>>
    /\ UNCHANGED shardVars

\* Lines 89-111: record_block when blocked; when score > 0.5 format the
\* alert and push it to g_ipc_buffer, record_drop when the push is refused.
ScorerAlert_RetryWhenFull ==
    /\ Alive /\ spc = "handle"
    /\ IF AlertWanted(last.score) /\ RingFull(ring2)
         THEN UNCHANGED <<spc, risk_blocks_total, last, ring2, accepted, drops_total>>
         ELSE /\ spc' = "idle"
              /\ risk_blocks_total' = IF last.is_blocked
                                        THEN risk_blocks_total + 1
                                        ELSE risk_blocks_total
              /\ IF AlertWanted(last.score)
                   THEN /\ ring2' = Append(ring2, [len |-> AlertLength(item),
                                                   data |-> AlertText(item)])
                        /\ accepted' = accepted + 1
                        /\ last' = [last EXCEPT !.alert = "pushed"]
                   ELSE UNCHANGED <<ring2, accepted, last>>
              /\ UNCHANGED drops_total
    /\ UNCHANGED <<item, ev, risk_map, transactions_total>>
    /\ UNCHANGED pipeRest
    /\ UNCHANGED <<mode, mainpc, force_quit, running, ipc, nread, cur,
                   msg_count, commits, ring1, kpc, sent, handed,
                   send_failed, decoded_total,
                   failed_total, pushed_total, abandoned, wanted>>
    /\ UNCHANGED <<ringVars, decodeVars, lifeVars>>
    /\ UNCHANGED shardVars

ScorerAlert_DropUncounted ==
    /\ Alive /\ spc = "handle"
    /\ risk_blocks_total' = IF last.is_blocked
                              THEN risk_blocks_total + 1
                              ELSE risk_blocks_total
    /\ IF AlertWanted(last.score)
         THEN IF AlertLength(item) > 0 /\ AlertLength(item) < AlertCapacity
                THEN IF RingFull(ring2)
                       THEN /\ drops_total' = drops_total
                            /\ last' = [last EXCEPT !.alert = "dropped"]
                            /\ UNCHANGED <<ring2, accepted>>
                       ELSE /\ ring2' = Append(ring2, [len |-> AlertLength(item),
                                                       data |-> AlertText(item)])
                            /\ accepted' = accepted + 1
                            /\ last' = [last EXCEPT !.alert = "pushed"]
                            /\ UNCHANGED drops_total
                ELSE /\ last' = [last EXCEPT !.alert = "unformatted"]
                     /\ UNCHANGED <<ring2, accepted, drops_total>>
         ELSE UNCHANGED <<ring2, accepted, drops_total, last>>
    /\ spc' = "idle"
    /\ UNCHANGED <<item, ev, risk_map, transactions_total>>
    /\ UNCHANGED pipeRest
    /\ UNCHANGED <<mode, mainpc, force_quit, running, ipc, nread, cur,
                   msg_count, commits, ring1, kpc, sent, handed,
                   send_failed, decoded_total,
                   failed_total, pushed_total, abandoned, wanted>>
    /\ UNCHANGED <<ringVars, decodeVars, lifeVars>>
    /\ UNCHANGED shardVars

ScorerAlert ==
    /\ Alive /\ spc = "handle"
    /\ risk_blocks_total' = IF last.is_blocked
                              THEN risk_blocks_total + 1
                              ELSE risk_blocks_total
    /\ IF AlertWanted(last.score)
         THEN IF AlertLength(item) > 0 /\ AlertLength(item) < AlertCapacity
                THEN IF RingFull(ring2)
                       THEN /\ drops_total' = drops_total + 1
                            /\ last' = [last EXCEPT !.alert = "dropped"]
                            /\ UNCHANGED <<ring2, accepted>>
                       ELSE /\ ring2' = Append(ring2, [len |-> AlertLength(item),
                                                       data |-> AlertText(item)])
                            /\ accepted' = accepted + 1
                            /\ last' = [last EXCEPT !.alert = "pushed"]
                            /\ UNCHANGED drops_total
                ELSE /\ last' = [last EXCEPT !.alert = "unformatted"]
                     /\ UNCHANGED <<ring2, accepted, drops_total>>
         ELSE UNCHANGED <<ring2, accepted, drops_total, last>>
    /\ spc' = "idle"
    /\ UNCHANGED <<item, ev, risk_map, transactions_total>>
    /\ UNCHANGED pipeRest
    /\ UNCHANGED <<mode, mainpc, force_quit, running, ipc, nread, cur,
                   msg_count, commits, ring1, kpc, sent, handed,
                   send_failed, decoded_total,
                   failed_total, pushed_total, abandoned, wanted>>
    /\ UNCHANGED <<ringVars, decodeVars, lifeVars>>
    /\ UNCHANGED shardVars

\* pop returned false: the inner loop ends (calculate_tps, yield).
ScorerPopEmpty ==
    /\ Alive /\ spc = "idle"
    /\ ring1 = <<>>
    /\ spc' = "outer"
    /\ UNCHANGED <<item, ev, last, risk_map, transactions_total,
                   risk_blocks_total, drops_total>>
    /\ UNCHANGED pipeRest
    /\ UNCHANGED pipeVars
    /\ UNCHANGED <<ringVars, decodeVars, lifeVars>>
    /\ UNCHANGED shardVars

\* while (!force_quit): back to the inner loop, or the thread ends.
ScorerOuter ==
    /\ Alive /\ spc = "outer"
    /\ spc' = IF force_quit THEN "exited" ELSE "idle"
    /\ UNCHANGED <<item, ev, last, risk_map, transactions_total,
                   risk_blocks_total, drops_total>>
    /\ UNCHANGED pipeRest
    /\ UNCHANGED pipeVars
    /\ UNCHANGED <<ringVars, decodeVars, lifeVars>>
    /\ UNCHANGED shardVars

\* ---- ipc_sender_worker (main.cpp lines 40-70) ----
\* sock.connect succeeds, or throws and the thread returns.
PusherConnect ==
    /\ Alive /\ kpc = "connect"
    /\ \E ok \in BOOLEAN : kpc' = IF ok THEN "outer" ELSE "failed"
    /\ UNCHANGED <<mode, mainpc, force_quit, running, ipc, nread, cur,
                   msg_count, commits, ring1, ring2, sent, handed,
                   send_failed, decoded_total,
                   failed_total, pushed_total, abandoned, wanted, accepted>>
    /\ UNCHANGED <<ringVars, engineVars, decodeVars, lifeVars>>
    /\ UNCHANGED shardVars

\* while (!force_quit): into the drain loop, or the thread ends.
PusherOuter ==
    /\ Alive /\ kpc = "outer"
    /\ kpc' = IF force_quit THEN "exited" ELSE "drain"
    /\ UNCHANGED <<mode, mainpc, force_quit, running, ipc, nread, cur,
                   msg_count, commits, ring1, ring2, sent, handed,
                   send_failed, decoded_total,
                   failed_total, pushed_total, abandoned, wanted, accepted>>
    /\ UNCHANGED <<ringVars, engineVars, decodeVars, lifeVars>>
    /\ UNCHANGED shardVars

\* Mutant of PusherPop: a record whose send threw is pushed back to
\* g_ipc_buffer to be sent again.
PusherPop_RequeueOnFailure ==
    /\ Alive /\ kpc = "drain"
    /\ ring2 # <<>>
    /\ sent' = sent + 1
    /\ handed' = Append(handed, Head(ring2))
    /\ \E ok \in BOOLEAN :
         /\ ok \/ Cardinality(send_failed) < MaxSendFailures
         /\ send_failed' = IF ok THEN send_failed
                                 ELSE send_failed \cup {Len(handed) + 1}
         /\ ring2' = IF ok THEN Tail(ring2) ELSE Append(Tail(ring2), Head(ring2))
    /\ UNCHANGED <<mode, mainpc, force_quit, running, ipc, nread, cur,
                   msg_count, commits, ring1, kpc, decoded_total,
                   failed_total, pushed_total, abandoned, wanted, accepted>>
    /\ UNCHANGED <<ringVars, engineVars, decodeVars, lifeVars>>
    /\ UNCHANGED shardVars

\* Mutant of PusherPop: the newest record of g_ipc_buffer is taken.
PusherPop_TakesNewest ==
    /\ Alive /\ kpc = "drain"
    /\ ring2 # <<>>
    /\ ring2' = SubSeq(ring2, 1, Len(ring2) - 1)
    /\ sent' = sent + 1
    /\ handed' = Append(handed, ring2[Len(ring2)])
    /\ \E ok \in BOOLEAN :
         /\ ok \/ Cardinality(send_failed) < MaxSendFailures
         /\ send_failed' = IF ok THEN send_failed
                                 ELSE send_failed \cup {Len(handed) + 1}
    /\ UNCHANGED <<mode, mainpc, force_quit, running, ipc, nread, cur,
                   msg_count, commits, ring1, kpc, decoded_total,
                   failed_total, pushed_total, abandoned, wanted, accepted>>
    /\ UNCHANGED <<ringVars, engineVars, decodeVars, lifeVars>>
    /\ UNCHANGED shardVars

\* g_ipc_buffer.pop(msg) succeeded (lines 57-64): the record is handed to
\* sock.send, which returns or throws zmq::error_t; the catch block is
\* empty, so either way the loop goes on to the next pop.
PusherPop ==
    /\ Alive /\ kpc = "drain"
    /\ ring2 # <<>>
    /\ ring2' = Tail(ring2)
    /\ sent' = sent + 1
    /\ handed' = Append(handed, Head(ring2))
    /\ \E ok \in BOOLEAN :
         /\ ok \/ Cardinality(send_failed) < MaxSendFailures
         /\ send_failed' = IF ok THEN send_failed
                                 ELSE send_failed \cup {Len(handed) + 1}
    /\ UNCHANGED <<mode, mainpc, force_quit, running, ipc, nread, cur,
                   msg_count, commits, ring1, kpc, decoded_total,
                   failed_total, pushed_total, abandoned, wanted, accepted>>
    /\ UNCHANGED <<ringVars, engineVars, decodeVars, lifeVars>>
    /\ UNCHANGED shardVars

\* pop returned false: sleep 1 ms and test force_quit again.
PusherPopEmpty ==
    /\ Alive /\ kpc = "drain"
    /\ ring2 = <<>>
    /\ kpc' = "outer"
    /\ UNCHANGED <<mode, mainpc, force_quit, running, ipc, nread, cur,
                   msg_count, commits, ring1, ring2, sent, handed,
                   send_failed, decoded_total,
                   failed_total, pushed_total, abandoned, wanted, accepted>>
    /\ UNCHANGED <<ringVars, engineVars, decodeVars, lifeVars>>
    /\ UNCHANGED shardVars

\* ---- main (main.cpp lines 180-196) ----
\* Live mode: the 5 s sleep is over, ingress.stop() clears running and joins.
MainStopIngress ==
    /\ mode = "live" /\ mainpc = "run"
    /\ running' = FALSE
    /\ mainpc' = "join"
    /\ UNCHANGED <<mode, force_quit, ipc, nread, cur, msg_count, commits,
                   ring1, ring2, kpc, sent, handed,
                   send_failed, decoded_total, failed_total,
                   pushed_total, abandoned, wanted, accepted>>
    /\ stopped' = Append(stopped, "ingress")
    /\ UNCHANGED <<started, exit_code, metrics_pc, last_err, polls, wlpc, wrunning>>
    /\ UNCHANGED <<ringVars, engineVars, decodeVars>>
    /\ UNCHANGED shardVars

\* The ingress is over (run returned and 2 s went by, or the consumer thread
\* was joined): force_quit = true.
MainSetQuit ==
    /\ \/ mode = "replay" /\ mainpc = "run"
       \/ mode = "live" /\ mainpc = "join"
    /\ ipc \in {"done", "unstarted"}
    /\ force_quit' = TRUE
    /\ mainpc' = "stopping"
    /\ UNCHANGED <<mode, running, ipc, nread, cur, msg_count, commits,
                   ring1, ring2, kpc, sent, handed,
                   send_failed, decoded_total, failed_total,
                   pushed_total, abandoned, wanted, accepted>>
    /\ stopped' = Append(stopped, "flag")
    /\ UNCHANGED <<started, exit_code, metrics_pc, last_err, polls, wlpc, wrunning>>
    /\ UNCHANGED <<ringVars, engineVars, decodeVars>>
    /\ UNCHANGED shardVars

\* rules_loader.stop(), line 193 (rules_loader.hpp lines 26-29): running =
\* false, then main waits in join for the watcher thread.
MainStopWatcher ==
    /\ mainpc = "stopping"
    /\ wrunning' = FALSE
    /\ mainpc' = "joinwatcher"
    /\ UNCHANGED <<mode, force_quit, running, ipc, nread, cur, msg_count,
                   commits, ring1, ring2, kpc, sent, handed,
                   send_failed, decoded_total,
                   failed_total, pushed_total, abandoned, wanted, accepted>>
    /\ stopped' = Append(stopped, "watcher")
    /\ UNCHANGED <<started, exit_code, metrics_pc, last_err, polls, wlpc>>
    /\ UNCHANGED <<ringVars, engineVars, decodeVars>>
    /\ UNCHANGED shardVars

\* RulesLoader::watch_loop (rules_loader.hpp lines 32-41): the condition
\* running && !force_quit is false after a 2 s sleep and the thread ends.
\* An iteration with the condition true changes nothing: the call of
\* reload_rules is commented out.
WatcherLeave ==
    /\ Alive /\ wlpc = "loop"
    /\ ~(wrunning /\ ~force_quit)
    /\ wlpc' = "exited"
    /\ UNCHANGED <<started, stopped, exit_code, metrics_pc, last_err, polls,
                   wrunning>>
    /\ UNCHANGED <<ringVars, engineVars, decodeVars, pipeVars>>
    /\ UNCHANGED shardVars

\* The watcher thread is joined; Metrics::shutdown(), return 0: the process
\* ends and the detached threads with it.
MainExit ==
    /\ mainpc = "joinwatcher"
    /\ wlpc = "exited"
    /\ mainpc' = "exited"
    /\ UNCHANGED <<mode, force_quit, running, ipc, nread, cur, msg_count,
                   commits, ring1, ring2, kpc, sent, handed,
                   send_failed, decoded_total,
                   failed_total, pushed_total, abandoned, wanted, accepted>>
    /\ stopped' = Append(stopped, "metrics")
    /\ metrics_pc' = IF metrics_pc = "failed" THEN "failed" ELSE "stopped"
    /\ exit_code' = 0
    /\ UNCHANGED <<started, last_err, polls, wlpc, wrunning>>
    /\ UNCHANGED <<ringVars, engineVars, decodeVars>>
    /\ UNCHANGED shardVars

\* ---- main's start sequence (main.cpp lines 163-188) ----
\* Error polls of the live ingress in one run.
MaxPolls == 2

\* exit_code while main has not returned.
NotExited == -1

\* Error codes of a consume call that returned no message: the two the
\* switch names and any other one (kafka_ingress.hpp lines 110-115).
PollErrors == {"TIMED_OUT", "PARTITION_EOF", "FATAL"}

\* Nothing was started or stopped (the state of the other specifications).
LifeIdle ==
    /\ started = <<>>
    /\ stopped = <<>>
    /\ exit_code = NotExited
    /\ metrics_pc = "unstarted"
    /\ last_err = "none"
    /\ polls = 0
    /\ wlpc = "unstarted"
    /\ wrunning = FALSE

\* main started every component (lines 167-187) and the metrics server
\* bound its port.
LifeRunning ==
    /\ started = <<"metrics", "watcher", "pusher", "scorer", "ingress">>
    /\ stopped = <<>>
    /\ exit_code = NotExited
    /\ metrics_pc = "serving"
    /\ last_err = "none"
    /\ polls = 0
    /\ wlpc = "loop"
    /\ wrunning = TRUE

\* main after argument parsing and Telemetry::init, before Metrics::init.
MainInit ==
    /\ mode \in {"replay", "live"}
    /\ mainpc = "metrics"
    /\ force_quit = FALSE
    /\ running = FALSE
    /\ ipc = "unstarted"
    /\ nread = 0
    /\ cur = ZeroPayment
    /\ msg_count = 0
    /\ commits = 0
    /\ ring1 = <<>>
    /\ ring2 = <<>>
    /\ kpc = "unstarted"
    /\ sent = 0
    /\ handed = <<>>
    /\ send_failed = {}
    /\ decoded_total = 0
    /\ failed_total = 0
    /\ pushed_total = 0
    /\ abandoned = 0
    /\ wanted = 0
    /\ accepted = 0
    /\ LifeIdle

\* Metrics::init(9090), line 167: MetricsServer::start spawns serve.
MainInitMetrics ==
    /\ mainpc = "metrics"
    /\ started' = Append(started, "metrics")
    /\ metrics_pc' = "bind"
    /\ mainpc' = "watcher"
    /\ UNCHANGED <<stopped, exit_code, last_err, polls, wlpc, wrunning>>
    /\ UNCHANGED <<mode, force_quit, running, ipc, nread, cur, msg_count,
                   commits, ring1, ring2, kpc, sent, handed,
                   send_failed, decoded_total,
                   failed_total, pushed_total, abandoned, wanted, accepted>>
    /\ UNCHANGED <<ringVars, engineVars, decodeVars>>
    /\ UNCHANGED shardVars

\* MetricsServer::serve, metrics.hpp lines 180-204: socket and bind succeed,
\* or one of them fails and the thread returns after a printf.
MetricsBind ==
    /\ Alive /\ metrics_pc = "bind"
    /\ \E ok \in BOOLEAN : metrics_pc' = IF ok THEN "serving" ELSE "failed"
    /\ UNCHANGED <<started, stopped, exit_code, last_err, polls, wlpc, wrunning>>
    /\ UNCHANGED <<ringVars, engineVars, decodeVars, pipeVars>>
    /\ UNCHANGED shardVars

\* rules_loader.start, lines 170-171 (rules_loader.hpp lines 21-24):
\* running = true and the watcher thread starts at the test of its loop.
MainStartWatcher ==
    /\ mainpc = "watcher"
    /\ started' = Append(started, "watcher")
    /\ wrunning' = TRUE
    /\ wlpc' = "loop"
    /\ mainpc' = "pusher"
    /\ UNCHANGED <<stopped, exit_code, metrics_pc, last_err, polls>>
    /\ UNCHANGED <<mode, force_quit, running, ipc, nread, cur, msg_count,
                   commits, ring1, ring2, kpc, sent, handed,
                   send_failed, decoded_total,
                   failed_total, pushed_total, abandoned, wanted, accepted>>
    /\ UNCHANGED <<ringVars, engineVars, decodeVars>>
    /\ UNCHANGED shardVars

\* std::thread ipc_thread(ipc_sender_worker); detach, lines 174-175.
MainStartPusher ==
    /\ mainpc = "pusher"
    /\ started' = Append(started, "pusher")
    /\ kpc' = "connect"
    /\ mainpc' = "scorer"
    /\ UNCHANGED <<stopped, exit_code, metrics_pc, last_err, polls, wlpc, wrunning>>
    /\ UNCHANGED <<mode, force_quit, running, ipc, nread, cur, msg_count,
                   commits, ring1, ring2, sent, handed,
                   send_failed, decoded_total,
                   failed_total, pushed_total, abandoned, wanted, accepted>>
    /\ UNCHANGED <<ringVars, engineVars, decodeVars>>
    /\ UNCHANGED shardVars

\* std::thread worker(risk_worker); detach, lines 178-179: the thread starts
\* at the test of its outer loop.
MainStartScorer ==
    /\ mainpc = "scorer"
    /\ started' = Append(started, "scorer")
    /\ spc' = "outer"
    /\ mainpc' = "ingress"
    /\ UNCHANGED <<item, ev, last, risk_map, transactions_total,
                   risk_blocks_total, drops_total>>
    /\ UNCHANGED pipeRest
    /\ UNCHANGED <<stopped, exit_code, metrics_pc, last_err, polls, wlpc, wrunning>>
    /\ UNCHANGED <<mode, force_quit, running, ipc, nread, cur, msg_count,
                   commits, ring1, ring2, kpc, sent, handed,
                   send_failed, decoded_total,
                   failed_total, pushed_total, abandoned, wanted, accepted>>
    /\ UNCHANGED <<ringVars, decodeVars>>
    /\ UNCHANGED shardVars

\* Lines 181-187: FileIngress::run on main's thread, or KafkaIngress::start
\* (kafka_ingress.hpp lines 38-73), which returns without setting running
\* and without a consumer thread when the configuration, the creation of
\* the consumer or the subscription fails.
MainStartIngress ==
    /\ mainpc = "ingress"
    /\ IF mode = "replay"
         THEN /\ ipc' = "read"
              /\ started' = Append(started, "ingress")
              /\ UNCHANGED running
         ELSE \E ok \in BOOLEAN :
                IF ok
                  THEN /\ running' = TRUE
                       /\ ipc' = "read"
                       /\ started' = Append(started, "ingress")
                  ELSE UNCHANGED <<running, ipc, started>>
    /\ mainpc' = "run"
    /\ UNCHANGED <<stopped, exit_code, metrics_pc, last_err, polls, wlpc, wrunning>>
    /\ UNCHANGED <<mode, force_quit, nread, cur, msg_count,
                   commits, ring1, ring2, kpc, sent, handed,
                   send_failed, decoded_total,
                   failed_total, pushed_total, abandoned, wanted, accepted>>
    /\ UNCHANGED <<ringVars, engineVars, decodeVars>>
    /\ UNCHANGED shardVars

\* consumer_loop, lines 87-117: consume returned no message but an error
\* code; every case of the switch only breaks out of the switch, msg is
\* deleted and the loop condition is tested again.
KafkaPoll ==
    /\ Alive /\ mode = "live" /\ ipc = "read"
    /\ running /\ ~force_quit
    /\ polls < MaxPolls
    /\ \E e \in PollErrors : last_err' = e
    /\ polls' = polls + 1
    /\ UNCHANGED <<started, stopped, exit_code, metrics_pc, wlpc, wrunning>>
    /\ UNCHANGED <<ringVars, engineVars, decodeVars, pipeVars>>
    /\ UNCHANGED shardVars

(***************************************************************************)
(* FastRiskEngine::evaluate called by several threads: the sharded map     *)
(***************************************************************************)
\* risk_engine.hpp line 43 and line 58.
RISK_MAP_SHARDS == 1024
MAX_ENTRIES_PER_SHARD == 500

\* Bound of the sharded model: calls of evaluate begun.
MaxCalls == 3

\* The threads that call evaluate.
Threads == {1, 2}

\* The entity names the threads present, and their bytes (ASCII).
Debtors == {"ACME", "ACME-344", "GLOBEX"}

BytesOf(n) ==
    CASE n = "ACME" -> <<65, 67, 77, 69>>
      [] n = "ACME-344" -> <<65, 67, 77, 69, 45, 51, 52, 52>>
      [] n = "GLOBEX" -> <<71, 76, 79, 66, 69, 88>>

RECURSIVE Xor(_, _)
\* a ^ b on naturals.
Xor(a, b) ==
    IF a = 0 THEN b
    ELSE IF b = 0 THEN a
    ELSE ((a + b) % 2) + 2 * Xor(a \div 2, b \div 2)

\* fnv1a_hash works in uint64_t, and "h & (RISK_MAP_SHARDS - 1)" keeps its
\* low 10 bits.  The low 10 bits of "hash ^= c; hash *= prime" depend only
\* on the low 10 bits of hash and of the prime, so the hash is carried
\* modulo 1024: the offset basis 14695981039346656037 is 805 and the prime
\* 1099511628211 is 435 modulo 1024.
FnvOffsetBasis == 805
FnvPrime == 435

\* Lines 89-90: hash ^= str[i]; hash *= 1099511628211ULL
fnv1a_step(hash, c) == (Xor(hash, c) * FnvPrime) % RISK_MAP_SHARDS

RECURSIVE fnv1a_from(_, _)
\* Lines 88-91: the loop over the bytes of str.
fnv1a_from(hash, str) ==
    IF str = <<>> THEN hash
    ELSE fnv1a_from(fnv1a_step(hash, Head(str)), Tail(str))

\* Lines 86-93, modulo 1024.
fnv1a_hash(str) == fnv1a_from(FnvOffsetBasis, str)

\* Lines 97-98: shard_idx = h & (RISK_MAP_SHARDS - 1)
ShardIdx(n) == fnv1a_hash(BytesOf(n)) % RISK_MAP_SHARDS

\* EntityState() of DistrubutedCache::fetch_from_redis, lines 27-29.
ColdState == [last_seen_timestamp |-> 0, velocity_accumulator |-> 0]

NoEntries == [e \in {} |-> ColdState]

\* shards[i] of a shard no thread has locked yet: default constructed.
FreshShard == [mtx |-> 0, map |-> NoEntries]

ShardAt(i) == IF i \in DOMAIN shards THEN shards[i] ELSE FreshShard

OthersAt(i) == IF i \in DOMAIN others THEN others[i] ELSE 0

\* risk_map.size() of shard i.
ShardSize(i) == Cardinality(DOMAIN ShardAt(i).map) + OthersAt(i)

\* Positions of evaluate between lock (line 108) and unlock (line 138).
LockedPcs == {"find", "load_seen", "reset", "store_seen", "load_v",
              "store_v", "unlock"}

\* No thread calls evaluate (the state of the other specifications).
ShardIdle ==
    /\ shards = [i \in {} |-> FreshShard]
    /\ others = [i \in {} |-> 0]
    /\ t_pc = [t \in Threads |-> "unstarted"]
    /\ t_key = [t \in Threads |-> ""]
    /\ t_shard_idx = [t \in Threads |-> 0]
    /\ t_now_ns = [t \in Threads |-> 0]
    /\ t_last_seen = [t \in Threads |-> 0]
    /\ t_v = [t \in Threads |-> 0]
    /\ calls = 0
    /\ seen_at = [n \in Debtors |-> 0]
    /\ run = [n \in Debtors |-> 0]
    /\ given = [n \in Debtors |-> <<>>]

\* The threads are about to call evaluate; the shard of "ACME" holds either
\* nothing or MAX_ENTRIES_PER_SHARD entities that are not among Debtors.
ShardInit ==
    /\ shards = [i \in {} |-> FreshShard]
    /\ \E n \in {0, MAX_ENTRIES_PER_SHARD} :
         others = IF n = 0
                    THEN [i \in {} |-> 0]
                    ELSE [i \in {ShardIdx("ACME")} |-> n]
    /\ t_pc = [t \in Threads |-> "idle"]
    /\ t_key = [t \in Threads |-> ""]
    /\ t_shard_idx = [t \in Threads |-> 0]
    /\ t_now_ns = [t \in Threads |-> 0]
    /\ t_last_seen = [t \in Threads |-> 0]
    /\ t_v = [t \in Threads |-> 0]
    /\ calls = 0
    /\ seen_at = [n \in Debtors |-> 0]
    /\ run = [n \in Debtors |-> 0]
    /\ given = [n \in Debtors |-> <<>>]

\* shards with the entity state of thread t's key replaced by st.
WithState(t, st) ==
    LET i == t_shard_idx[t]
        sh == ShardAt(i)
    IN  [j \in DOMAIN shards \cup {i} |->
           IF j = i
             THEN [sh EXCEPT !.map =
                     [e \in DOMAIN sh.map \cup {t_key[t]} |->
                        IF e = t_key[t] THEN st ELSE sh.map[e]]]
             ELSE shards[j]]

\* "state" of thread t: it->second.
StateOf(t) == ShardAt(t_shard_idx[t]).map[t_key[t]]

\* evaluate, lines 97-101: the shard is selected from the name.
ShardCall(t) ==
    /\ t_pc[t] = "idle"
    /\ calls < MaxCalls
    /\ calls' = calls + 1
    /\ \E n \in Debtors :
         /\ t_key' = [t_key EXCEPT ![t] = n]
         /\ t_shard_idx' = [t_shard_idx EXCEPT ![t] = ShardIdx(n)]
    /\ t_pc' = [t_pc EXCEPT ![t] = "lock"]
    /\ UNCHANGED <<shards, others, t_now_ns, t_last_seen, t_v,
                   seen_at, run, given>>
    /\ UNCHANGED <<ringVars, engineVars, decodeVars, pipeVars, lifeVars>>

\* Mutant of ShardLock: evaluate goes on without the shard's mutex.
ShardLock_NoMutex(t) ==
    /\ t_pc[t] = "lock"
    /\ t_pc' = [t_pc EXCEPT ![t] = "find"]
    /\ UNCHANGED <<shards, others, t_key, t_shard_idx, t_now_ns, t_last_seen,
                   t_v, calls, seen_at, run, given>>
    /\ UNCHANGED <<ringVars, engineVars, decodeVars, pipeVars, lifeVars>>

\* Line 108: std::unique_lock<std::mutex> lock(shard.mtx)
ShardLock(t) ==
    /\ t_pc[t] = "lock"
    /\ ShardAt(t_shard_idx[t]).mtx = 0
    /\ shards' = [j \in DOMAIN shards \cup {t_shard_idx[t]} |->
                    IF j = t_shard_idx[t]
                      THEN [ShardAt(j) EXCEPT !.mtx = t]
                      ELSE shards[j]]
    /\ t_pc' = [t_pc EXCEPT ![t] = "find"]
    /\ UNCHANGED <<others, t_key, t_shard_idx, t_now_ns, t_last_seen,
                   t_v, calls, seen_at, run, given>>
    /\ UNCHANGED <<ringVars, engineVars, decodeVars, pipeVars, lifeVars>>

\* Mutant of ShardFind: a full shard admits no new entity.
ShardFind_HardCap(t) ==
    /\ t_pc[t] = "find"
    /\ IF t_key[t] \in DOMAIN ShardAt(t_shard_idx[t]).map
         THEN /\ shards' = shards
              /\ t_pc' = [t_pc EXCEPT ![t] = "load_seen"]
         ELSE IF ShardSize(t_shard_idx[t]) >= MAX_ENTRIES_PER_SHARD
                THEN /\ shards' = shards
                     /\ t_pc' = [t_pc EXCEPT ![t] = "unlock"]
                ELSE /\ shards' = WithState(t, ColdState)
                     /\ t_pc' = [t_pc EXCEPT ![t] = "load_seen"]
    /\ UNCHANGED <<others, t_key, t_shard_idx, t_now_ns, t_last_seen,
                   t_v, calls, seen_at, run, given>>
    /\ UNCHANGED <<ringVars, engineVars, decodeVars, pipeVars, lifeVars>>

\* Lines 111-121: find the key; when it is absent emplace a cold state.  The
\* branch for size() >= MAX_ENTRIES_PER_SHARD (lines 114-117) is empty.
ShardFind(t) ==
    /\ t_pc[t] = "find"
    /\ IF t_key[t] \in DOMAIN ShardAt(t_shard_idx[t]).map
         THEN shards' = shards
         ELSE IF ShardSize(t_shard_idx[t]) >= MAX_ENTRIES_PER_SHARD
                THEN shards' = WithState(t, ColdState)
                ELSE shards' = WithState(t, ColdState)
    /\ t_pc' = [t_pc EXCEPT ![t] = "load_seen"]
    /\ UNCHANGED <<others, t_key, t_shard_idx, t_now_ns, t_last_seen,
                   t_v, calls, seen_at, run, given>>
    /\ UNCHANGED <<ringVars, engineVars, decodeVars, pipeVars, lifeVars>>

\* Lines 126-127: now_ns is read from the steady clock and last_seen is
\* loaded.  This instant is the observation: seen_at, run and given keep
\* the history of the observations of each name.
ShardLoadSeen(t) ==
    /\ t_pc[t] = "load_seen"
    /\ t_now_ns' = [t_now_ns EXCEPT ![t] = now]
    /\ t_last_seen' = [t_last_seen EXCEPT ![t] = StateOf(t).last_seen_timestamp]
    /\ LET n == t_key[t]
           rapid == now - seen_at[n] <= OneSecond
       IN  /\ seen_at' = [seen_at EXCEPT ![n] = now]
           /\ run' = [run EXCEPT ![n] = IF rapid THEN run[n] + 1 ELSE 1]
           /\ given' = [given EXCEPT ![n] = IF rapid THEN given[n] ELSE <<>>]
    /\ t_pc' = [t_pc EXCEPT ![t] = "reset"]
    /\ UNCHANGED <<shards, others, t_key, t_shard_idx, t_v, calls>>
    /\ UNCHANGED <<ringVars, engineVars, decodeVars, pipeVars, lifeVars>>

\* Lines 129-131: the accumulator is reset after more than 1 s.
ShardReset(t) ==
    /\ t_pc[t] = "reset"
    /\ shards' = IF t_now_ns[t] - t_last_seen[t] > OneSecond
                   THEN WithState(t, [StateOf(t) EXCEPT
                                        !.velocity_accumulator = 0])
                   ELSE shards
    /\ t_pc' = [t_pc EXCEPT ![t] = "store_seen"]
    /\ UNCHANGED <<others, t_key, t_shard_idx, t_now_ns, t_last_seen,
                   t_v, calls, seen_at, run, given>>
    /\ UNCHANGED <<ringVars, engineVars, decodeVars, pipeVars, lifeVars>>

\* Line 133: state.last_seen_timestamp.store(now_ns)
ShardStoreSeen(t) ==
    /\ t_pc[t] = "store_seen"
    /\ shards' = WithState(t, [StateOf(t) EXCEPT
                                 !.last_seen_timestamp = t_now_ns[t]])
    /\ t_pc' = [t_pc EXCEPT ![t] = "load_v"]
    /\ UNCHANGED <<others, t_key, t_shard_idx, t_now_ns, t_last_seen,
                   t_v, calls, seen_at, run, given>>
    /\ UNCHANGED <<ringVars, engineVars, decodeVars, pipeVars, lifeVars>>

\* Line 134: float v = state.velocity_accumulator.load()
ShardLoadV(t) ==
    /\ t_pc[t] = "load_v"
    /\ t_v' = [t_v EXCEPT ![t] = StateOf(t).velocity_accumulator]
    /\ t_pc' = [t_pc EXCEPT ![t] = "store_v"]
    /\ UNCHANGED <<shards, others, t_key, t_shard_idx, t_now_ns, t_last_seen,
                   calls, seen_at, run, given>>
    /\ UNCHANGED <<ringVars, engineVars, decodeVars, pipeVars, lifeVars>>

\* Lines 135-136: v += 1.0f; state.velocity_accumulator.store(v).  v is the
\* velocity the call goes on to score.
ShardStoreV(t) ==
    /\ t_pc[t] = "store_v"
    /\ t_v' = [t_v EXCEPT ![t] = FloatSucc(t_v[t])]
    /\ shards' = WithState(t, [StateOf(t) EXCEPT
                                 !.velocity_accumulator = FloatSucc(t_v[t])])
    /\ given' = [given EXCEPT ![t_key[t]] = Append(@, FloatSucc(t_v[t]))]
    /\ t_pc' = [t_pc EXCEPT ![t] = "unlock"]
    /\ UNCHANGED <<others, t_key, t_shard_idx, t_now_ns, t_last_seen,
                   calls, seen_at, run>>
    /\ UNCHANGED <<ringVars, engineVars, decodeVars, pipeVars, lifeVars>>

\* Line 138: lock.unlock(); the rest of evaluate touches no shard.
ShardUnlock(t) ==
    /\ t_pc[t] = "unlock"
    /\ shards' = [shards EXCEPT ![t_shard_idx[t]].mtx = 0]
    /\ t_pc' = [t_pc EXCEPT ![t] = "idle"]
    /\ UNCHANGED <<others, t_key, t_shard_idx, t_now_ns, t_last_seen,
                   t_v, calls, seen_at, run, given>>
    /\ UNCHANGED <<ringVars, engineVars, decodeVars, pipeVars, lifeVars>>

Ingress == FileReadLine \/ FileEnd \/ FilePush \/ FileRetry
             \/ KafkaConsume \/ KafkaLeave \/ KafkaPush \/ KafkaRetry

PipeScorer == ScorerPop \/ ScorerAlert \/ ScorerPopEmpty \/ ScorerOuter

Pusher == PusherConnect \/ PusherOuter \/ PusherPop \/ PusherPopEmpty

Init ==
    /\ RingInit /\ EngineInit /\ DecodeIdle /\ PipeIdle /\ LifeIdle
    /\ ShardIdle

InitMessage ==
    /\ RingInit /\ EngineInit /\ DecodeInit /\ PipeIdle /\ LifeIdle
    /\ ShardIdle

InitPipe ==
    /\ RingInit /\ EngineInit /\ DecodeIdle /\ PipeInit /\ LifeRunning
    /\ ShardIdle

\* The process at the start of main, no thread started.
InitMain ==
    /\ RingInit
    /\ EngineConstructed /\ spc = "unstarted"
    /\ DecodeIdle
    /\ MainInit
    /\ ShardIdle

\* One producer and one consumer on a LockFreeRingBuffer.
NextRing ==
    \/ PushLoadHead
    \/ PushCheckFull
    \/ PushWriteSlot
    \/ PushStoreHead
    \/ PopLoadTail
    \/ PopCheckEmpty
    \/ PopReadSlot
    \/ PopStoreTail

SpecRing == Init /\ [][NextRing]_vars

\* Both threads are kernel scheduled: each keeps taking steps.
SpecRingFair == SpecRing /\ WF_vars(Producer) /\ WF_vars(Consumer)

\* The scorer against a watcher that calls reload_rules.
NextRules ==
    \/ ReloadLoadIdx
    \/ ReloadWriteField
    \/ ReloadStoreIdx
    \/ WorkerPop
    \/ EvalLoadIdx
    \/ EvalShardUpdate
    \/ EvalReadField
    \/ EvalReturn
    \/ WorkerHandle

SpecRules == Init /\ [][NextRules]_vars

\* The scorer as main.cpp runs it: RulesLoader::watch_loop never calls
\* reload_rules, time passes between payments.
NextScore ==
    \/ Tick
    \/ WorkerPop
    \/ EvalLoadIdx
    \/ EvalShardUpdate
    \/ EvalReadField
    \/ EvalReturn
    \/ WorkerHandle

SpecScore == Init /\ [][NextScore]_vars

\* The engine either freshly constructed or LongRun payments of one entity
\* into a run, each scored within 1 s of the one before and the last one
\* scored at the current instant.
InitLongRun ==
    /\ RingInit /\ DecodeIdle /\ PipeIdle /\ LifeIdle /\ ShardIdle
    /\ rule_sets = [i \in 0..1 |-> DefaultWeights]
    /\ rule_gen = [i \in 0..1 |-> [f \in WeightFields |-> 0]]
    /\ active_idx = 0
    /\ now = OneSecond + 1
    /\ wpc = "idle"
    /\ wnext = 0
    /\ wtodo = {}
    /\ reloads = 0
    /\ item = NoItem
    /\ eidx = 0
    /\ ev = 0
    /\ eread = <<>>
    /\ eselgen = 0
    /\ last = NoResult
    /\ risk_blocks_total = 0
    /\ drops_total = 0
    /\ ipc_count = 0
    /\ spc = "idle"
    /\ \E n \in {0, LongRun} :
         /\ transactions_total = n
         /\ rapid_run = n
         /\ risk_map = IF n = 0
                         THEN [e \in {} |-> 0]
                         ELSE [e \in Entities |->
                                 [last_seen_timestamp |-> now,
                                  velocity_accumulator |-> n]]

\* The scorer over a long run of payments of one entity.
SpecLongRun == InitLongRun /\ [][NextScore]_vars

\* Two threads in evaluate, before any of them called it.
InitShard ==
    /\ RingInit /\ EngineInit /\ DecodeIdle /\ PipeIdle /\ LifeIdle
    /\ ShardInit

\* Threads calling evaluate while time passes.
NextShard ==
    \/ Tick
    \/ \E t \in Threads : ShardCall(t)
    \/ \E t \in Threads : ShardLock(t)
    \/ \E t \in Threads : ShardFind(t)
    \/ \E t \in Threads : ShardLoadSeen(t)
    \/ \E t \in Threads : ShardReset(t)
    \/ \E t \in Threads : ShardStoreSeen(t)
    \/ \E t \in Threads : ShardLoadV(t)
    \/ \E t \in Threads : ShardStoreV(t)
    \/ \E t \in Threads : ShardUnlock(t)

SpecShard == InitShard /\ [][NextShard]_vars

\* One message through parse, the structuring check and the alert formatter.
NextMessage ==
    \/ MsgParse
    \/ MsgScore
    \/ MsgFormat
    \/ MsgPush

SpecMessage == InitMessage /\ [][NextMessage]_vars

\* main, the ingress, the scorer and the pusher of one run of the engine.
NextPipe ==
    \/ FileReadLine
    \/ FileEnd
    \/ FilePush
    \/ FileRetry
    \/ KafkaConsume
    \/ KafkaLeave
    \/ KafkaPush
    \/ KafkaRetry
    \/ ScorerPop
    \/ ScorerAlert
    \/ ScorerPopEmpty
    \/ ScorerOuter
    \/ PusherConnect
    \/ PusherOuter
    \/ PusherPop
    \/ PusherPopEmpty
    \/ MainStopIngress
    \/ MainSetQuit
    \/ MainStopWatcher
    \/ WatcherLeave
    \/ MainExit

SpecPipe == InitPipe /\ [][NextPipe]_vars

\* ScorerPop is enabled exactly when the scorer is at its inner loop test
\* and ring1 holds a payment (push and pop are total on such a state).
ScorerPopEnabled == Alive /\ spc = "idle" /\ ring1 # <<>>

\* One replay run (--replay-mode): the steps of NextPipe without those of the
\* Kafka ingress and of main's live branch.
InitReplay == InitPipe /\ mode = "replay"

NextReplay ==
    \/ FileReadLine
    \/ FileEnd
    \/ FilePush
    \/ FileRetry
    \/ ScorerPop
    \/ ScorerAlert
    \/ ScorerPopEmpty
    \/ ScorerOuter
    \/ PusherConnect
    \/ PusherOuter
    \/ PusherPop
    \/ PusherPopEmpty
    \/ MainSetQuit
    \/ MainStopWatcher
    \/ WatcherLeave
    \/ MainExit

\* The scorer thread is kernel scheduled and keeps taking steps: weak
\* fairness of each of its steps, that of ScorerPop with its enabling
\* condition written out.  Nothing is assumed of the pusher, of the ingress
\* or of main, which may stall or may have returned.
SpecReplayFair ==
    /\ InitReplay /\ [][NextReplay]_vars
    /\ WF_vars(ScorerAlert)
    /\ WF_vars(ScorerPopEmpty)
    /\ WF_vars(ScorerOuter)
    /\ ([]<>(~ScorerPopEnabled) \/ []<><<ScorerPop>>_vars)

\* One run, replay or live, in which every thread but main is scheduled
\* again and again for as long as the process lives: weak fairness of the
\* steps of the scorer, the pusher, the rule watcher and of the ingress
\* steps that follow a refused push or a false loop condition.  Main is
\* left free: its sleeps and joins end when they end.
SpecStopFair ==
    /\ InitPipe /\ [][NextPipe]_vars
    /\ WF_vars(ScorerAlert)
    /\ WF_vars(ScorerPopEmpty)
    /\ WF_vars(ScorerOuter)
    /\ ([]<>(~ScorerPopEnabled) \/ []<><<ScorerPop>>_vars)
    /\ WF_vars(PusherConnect)
    /\ WF_vars(PusherOuter)
    /\ WF_vars(PusherPop)
    /\ WF_vars(PusherPopEmpty)
    /\ WF_vars(WatcherLeave)
    /\ WF_vars(FileRetry)
    /\ WF_vars(KafkaRetry)
    /\ WF_vars(KafkaLeave)

\* A whole run of main over an empty replay file or a topic without
\* messages: start of the components, error polls, stop and exit.
NextMain ==
    \/ MainInitMetrics
    \/ MetricsBind
    \/ MainStartWatcher
    \/ MainStartPusher
    \/ MainStartScorer
    \/ MainStartIngress
    \/ FileEnd
    \/ KafkaPoll
    \/ KafkaLeave
    \/ ScorerPopEmpty
    \/ ScorerOuter
    \/ PusherConnect
    \/ PusherOuter
    \/ PusherPopEmpty
    \/ MainStopIngress
    \/ MainSetQuit
    \/ MainStopWatcher
    \/ WatcherLeave
    \/ MainExit

SpecMain == InitMain /\ [][NextMain]_vars

(***************************************************************************)
(* Ring claims                                                             *)
(***************************************************************************)
Outstanding == Len(pushed) - Len(popped)

IsPrefix(s, t) ==
    /\ Len(s) <= Len(t)
    /\ \A i \in 1..Len(s) : s[i] = t[i]

\* C1: the sequence of items returned by successful pops is always a prefix
\* of the sequence of items accepted by successful pushes, also after head
\* and tail have wrapped around the slot array.
C1_PopIsPrefixOfPush == IsPrefix(popped, pushed)

\* C1 witness: more items than the slot array has were popped in order, so
\* both indices have wrapped.
C1_WrappedWitness ==
    /\ Len(popped) > RingSize
    /\ IsPrefix(popped, pushed)
    /\ tail < RingSize - 1

\* C2: the number of outstanding items stays in [0, Size-1]; a push that
\* tests for full while Size-1 items are outstanding and the consumer is not
\* inside pop returns false, and a pop that tests for empty while nothing is
\* outstanding and the producer is not inside push returns false.
C2_CapacityAndRefusal ==
    /\ [](Outstanding \in 0..(RingSize - 1))
    /\ [][(PushCheckFull /\ Outstanding = RingSize - 1 /\ cpc = "idle")
            => (lastPush' = "full" /\ ppc' = "idle")]_vars
    /\ [][(PopCheckEmpty /\ Outstanding = 0 /\ ppc = "idle")
            => (lastPop' = "empty" /\ cpc' = "idle")]_vars

\* C2 witness: a push was refused with Size-1 items outstanding after a pop
\* had been refused on the empty ring.
C2_FullRefusedWitness ==
    /\ Outstanding = RingSize - 1
    /\ lastPush = "full"
    /\ ppc = "idle"
    /\ cpc = "idle"
    /\ lastPop = "empty"

\* The slots holding items that were pushed and not yet popped.
UnreadSlots == {Mask(tail + k) : k \in 0..(Outstanding - 1)}

\* C3: with push and pop interleaved one memory access at a time, the
\* producer never writes a slot holding an item the consumer has not finished
\* reading, and every successful pop returns exactly the item written by the
\* corresponding push (every word of it).
C3_NoOverwriteExactValue ==
    /\ (ppc = "write") => (pcur \notin UnreadSlots)
    /\ (ppc = "write" /\ cpc \in {"read", "store"}) => (pcur # ccur)
    /\ \A i \in 1..Len(popped) : popped[i] = Item(i)
    /\ (cpc = "store") => (citem = Item(Len(popped) + 1))

\* C3 witness: the producer is in the middle of writing a slot while the
\* consumer is in the middle of reading another one, after the indices wrapped.
C3_ConcurrentAccessWitness ==
    /\ ppc = "write"
    /\ pw = ItemWords
    /\ cpc = "read"
    /\ cw = ItemWords
    /\ Len(pushed) >= RingSize
    /\ Len(popped) >= 1

\* C4: under fair scheduling every accepted item is eventually popped, a
\* retried push is eventually accepted, and a producer pushing MaxItems items
\* (more than the capacity) and a consumer popping until it has MaxItems both
\* terminate.
C4_EventuallyPoppedAndDone ==
    /\ \A n \in 1..MaxItems : (Len(pushed) >= n) ~> (Len(popped) >= n)
    /\ \A n \in 0..(MaxItems - 1) :
          (lastPush = "full" /\ Len(pushed) = n) ~> (Len(pushed) > n)
    /\ <>[](/\ Len(pushed) = MaxItems
            /\ Len(popped) = MaxItems
            /\ ppc = "idle"
            /\ cpc = "idle")

\* C4 witness: all MaxItems items went through the ring although a push had
\* been refused on the way.
C4_AllDeliveredWitness ==
    /\ Len(popped) = MaxItems
    /\ popped = pushed
    /\ lastPush = "ok"
    /\ MaxItems > RingSize - 1

(***************************************************************************)
(* Rule swap and scoring claims                                            *)
(***************************************************************************)
\* The weights a finished evaluate call used, when both reads of
\* velocity_threshold agree.
UsedWeights ==
    [velocity_threshold |-> eread[2], structuring_threshold |-> eread[3],
     baseline |-> eread[4], velocity_weight |-> eread[5],
     structuring_weight |-> eread[6]]

ReadsComplete == Len(eread) = Len(ReadOrder)

\* C5: the weights one evaluate call computes its total with all come from
\* one published rule generation (the constructor's set or the reloaded set),
\* never a mix, whatever reloads complete during the call.
C5_WeightsFromOneGeneration ==
    ReadsComplete =>
        /\ eread[1] = eread[2]
        /\ UsedWeights \in {DefaultWeights, ReloadedWeights}

\* C6: over successive evaluate calls of the scorer the generation held by
\* the slot that the loaded active index selects never decreases.
C6_SelectedGenerationMonotonic == [][eselgen' >= eselgen]_vars

\* C6 witness: after scoring with generation 0 and with generation 1 the
\* scorer has selected the slot of the second reload.
C6_LaterGenerationWitness ==
    /\ eselgen = 2
    /\ eidx = 0
    /\ transactions_total >= 3
    /\ spc = "idle"

\* C7: every score evaluate returns lies in [0, 1], for every amount and
\* velocity and for the initial as well as the reloaded weights.
C7_ScoreInUnitInterval ==
    last.valid => (last.score >= 0 /\ last.score <= ScoreOne)

\* C7 witness: a saturated velocity and an amount inside the structuring
\* band scored with the reloaded weights (0.95).
C7_ReloadedSaturatedWitness ==
    /\ last.valid
    /\ ReadsComplete
    /\ eread[1] = eread[2]
    /\ UsedWeights = ReloadedWeights
    /\ ev > 2 * ReloadedWeights.velocity_threshold
    /\ item.amount = <<9000, 0>>
    /\ 100 * last.score = 95 * ScoreOne

Min(a, b) == IF a <= b THEN a ELSE b

\* baseline + velocity_weight x min(1, v / (2 x velocity_threshold))
\*          + structuring_weight x structuring_score, capped at 1.
FormulaTotal(w, v, amount) ==
    Min(ScoreOne,
        w.baseline * VelocityOne
        + w.velocity_weight
            * Min(VelocityOne, (v * VelocityOne) \div (2 * w.velocity_threshold))
        + w.structuring_weight * VelocityOne
            * StructuringScore(amount, w.structuring_threshold))

\* C8: evaluate returns baseline + velocity_weight x min(1, v / (2 x
\* velocity_threshold)) + structuring_weight x structuring_score capped at 1,
\* v being the accumulator after this observation's increment; under the
\* default weights the first observation of an entity with 1 500 000 000
\* micros scores 0.11, is not blocked and raises no alert.
C8_TotalFormulaAndFirstScore ==
    /\ last.valid =>
          /\ ev = risk_map[item.debtor_name].velocity_accumulator
          /\ last.score = FormulaTotal(UsedWeights, ev, item.amount)
    /\ (last.valid /\ spc = "idle" /\ transactions_total = 1
            /\ item.amount = <<1500, 0>>) =>
          /\ 100 * last.score = 11 * ScoreOne
          /\ ~last.is_blocked
          /\ last.alert = "none"
          /\ ipc_count = 0

\* C8 witness: the first payment, 1500.00, has been scored 0.11 and handled.
C8_FirstObservationWitness ==
    /\ last.valid
    /\ spc = "idle"
    /\ transactions_total = 1
    /\ item.amount = <<1500, 0>>
    /\ UsedWeights = DefaultWeights
    /\ ev = 1
    /\ 100 * last.score = 11 * ScoreOne

\* C9: a scored payment is reported blocked, and counted in
\* risk_blocks_total, exactly when its total exceeds 0.8, and a push of an
\* alert to ring2 is attempted exactly when its total exceeds 0.5; totals of
\* exactly 0.8 and exactly 0.5 do neither.
C9_BlockAndAlertThresholds ==
    /\ [](last.valid => (last.is_blocked <=> 10 * last.score > 8 * ScoreOne))
    /\ []((last.valid /\ spc = "idle") =>
            (last.alert \in {"pushed", "dropped"} <=> 2 * last.score > ScoreOne))
    /\ [][risk_blocks_total' =
            IF spc = "handle" /\ spc' = "idle" /\ 10 * last.score > 8 * ScoreOne
              THEN risk_blocks_total + 1
              ELSE risk_blocks_total]_vars
    /\ [][ipc_count' + drops_total' =
            IF spc = "handle" /\ spc' = "idle" /\ 2 * last.score > ScoreOne
              THEN ipc_count + drops_total + 1
              ELSE ipc_count + drops_total]_vars

\* C9 witness: a payment whose total is exactly 0.8 was handled: not blocked,
\* not counted, alert pushed.
C9_ExactlyEightTenthsWitness ==
    /\ last.valid
    /\ spc = "idle"
    /\ 10 * last.score = 8 * ScoreOne
    /\ ~last.is_blocked
    /\ risk_blocks_total = 0
    /\ last.alert = "pushed"

\* C10: under the default weights, for payments of 9 000 000 000 micros from
\* one debtor, the first observation scores 0.36 without alert, and the tenth
\* of ten observations whose gaps are all at most 1 s scores 0.90, is
\* blocked and has its alert pushed to ring2.
C10_StructuringTrip ==
    (last.valid /\ spc = "idle" /\ item.amount = <<9000, 0>>) =>
        /\ (transactions_total = 1) =>
              /\ 100 * last.score = 36 * ScoreOne
              /\ last.alert = "none"
        /\ (rapid_run = 10) =>
              /\ 100 * last.score = 90 * ScoreOne
              /\ last.is_blocked
              /\ last.alert = "pushed"

\* C10 witness: the tenth observation of a run that lasted two seconds has
\* scored 0.90 and its alert is in ring2.
C10_TenthObservationWitness ==
    /\ last.valid
    /\ spc = "idle"
    /\ item.amount = <<9000, 0>>
    /\ rapid_run = 10
    /\ now = OneSecond + 3
    /\ 100 * last.score = 90 * ScoreOne
    /\ last.is_blocked
    /\ last.alert = "pushed"
    /\ risk_blocks_total >= 1

(***************************************************************************)
(* Structuring band (C11)                                                  *)
(***************************************************************************)
\* The message went through parse (and further).
Decoded == dpc \in {"parsed", "scored", "formatted"}

\* C11: structuring_score is 1 exactly when threshold x 10^6 <= amount <
\* 10 000 000 000 micros, with threshold x 10^6 the exact integer product
\* (9 000 000 000 for the threshold 9000), and 0 otherwise.
C11_ExactIntegerThreshold ==
    dpc \in {"scored", "formatted"} =>
        (dscore = 1 <=> (/\ ~AmountLess(decoded.amount, <<dst, 0>>)
                         /\ AmountLess(decoded.amount, LimitMicros)))

(***************************************************************************)
(* Decoder claims (C14 - C17)                                              *)
(***************************************************************************)
\* The number a run of digits denotes, by place value.
RECURSIVE SumPlaces(_, _)
SumPlaces(d, i) ==
    IF i > Len(d)
      THEN 0
      ELSE (DigitValue(d[i]) * (10 ^ (Len(d) - i))) + SumPlaces(d, i + 1)

NumberOf(d) == SumPlaces(d, 1)

\* Length of the longest run of digits of s that starts at position from.
RunLength(s, from) ==
    CHOOSE k \in 0..Len(s) :
        /\ \A i \in from..(from + k - 1) : i <= Len(s) /\ IsDigit(s[i])
        /\ (from + k > Len(s) \/ ~IsDigit(s[from + k]))

\* sign x (integer_part x 10^6 + fractional_part) of an amount text: the
\* fractional part is the first up to six fractional digits, right-padded
\* with zeros to width six.
ClaimedAmount(s) ==
    LET neg == s # <<>> /\ s[1] = "-"
        b == IF neg THEN 2 ELSE 1
        k == RunLength(s, b)
        int == NumberOf(SubSeq(s, b, b + k - 1))
        hasdot == b + k <= Len(s) /\ s[b + k] = "."
        m == IF hasdot THEN RunLength(s, b + k + 1) ELSE 0
        n == IF m > FractionDigits THEN FractionDigits ELSE m
        frac == NumberOf(SubSeq(s, b + k + 1, b + k + n))
                  * (10 ^ (FractionDigits - n))
    IN  IF neg THEN <<-int, -frac>> ELSE <<int, frac>>

\* The elements parse requires are present.
RequiredPresent(d) ==
    /\ d.pmt_id
    /\ d.uetr.present \/ d.e2e.present
    /\ d.dbtr_nm.present
    /\ d.cdtr_nm.present
    /\ d.instd_amt.present

\* Ccy is present, 3 bytes long and one of EUR, USD, GBP.
CcyWhitelisted(d) ==
    /\ d.ccy.present
    /\ Len(d.ccy.text) = 3
    /\ d.ccy.text \in {Eur, Usd, Gbp}

\* The document is well-formed XML with the containers of a pacs.008.
WellFormed(d) ==
    d.xml_ok /\ d.root /\ d.cct # "none" /\ d.pmt_inf # "none"

\* Everything but the amount text is acceptable.
ElementsAccepted(d) == WellFormed(d) /\ RequiredPresent(d) /\ CcyWhitelisted(d)

\* C14: parse computes amount = sign x (integer_part x 10^6 +
\* fractional_part) with the first up to 6 fractional digits right-padded to
\* width 6 and later digits ignored, and fails whenever that amount is <= 0
\* ("0", "-500.00"); "1500.00" gives 1 500 000 000 and "0.01" gives 10 000.
C14_AmountFromDigits ==
    (Decoded /\ ElementsAccepted(doc) /\ doc.instd_amt.text # <<>>) =>
        LET t == doc.instd_amt.text
        IN  /\ decoded.amount = ClaimedAmount(t)
            /\ parsed_ok <=> AmountPositive(ClaimedAmount(t))
            /\ t = <<"1", "5", "0", "0", ".", "0", "0">>
                 => parsed_ok /\ decoded.amount = <<1500, 0>>
            /\ t = <<"0", ".", "0", "1">>
                 => parsed_ok /\ decoded.amount = <<0, 10000>>
            /\ t \in {<<"0">>, <<"-", "5", "0", "0", ".", "0", "0">>}
                 => ~parsed_ok

\* A seventh fractional digit was dropped, not rounded.
C14_SeventhDigitIgnoredWitness ==
    /\ dpc = "parsed"
    /\ parsed_ok
    /\ doc.instd_amt.text = <<"1", ".", "9", "9", "9", "9", "9", "9", "9">>
    /\ decoded.amount = <<1, 999999>>

\* s is digits with at most one dot and at least one digit.
IsPlainDecimal(s) ==
    LET dots == {i \in 1..Len(s) : s[i] = "."}
    IN  /\ Cardinality(dots) <= 1
        /\ \A i \in (1..Len(s)) \ dots : IsDigit(s[i])
        /\ Len(s) - Cardinality(dots) >= 1

IntegerDigits(s) ==
    LET dots == {i \in 1..Len(s) : s[i] = "."}
    IN  IF dots = {} THEN s ELSE SubSeq(s, 1, (CHOOSE i \in dots : TRUE) - 1)

FractionalDigits(s) ==
    LET dots == {i \in 1..Len(s) : s[i] = "."}
    IN  IF dots = {} THEN <<>> ELSE SubSeq(s, (CHOOSE i \in dots : TRUE) + 1, Len(s))

\* The numeric value of a plain decimal with at most six fractional digits,
\* as <<units, millionths>>.
DecimalValue(s) ==
    <<NumberOf(IntegerDigits(s)),
      NumberOf(FractionalDigits(s)) * (10 ^ (FractionDigits - Len(FractionalDigits(s))))>>

\* The amount field of the alert line: what stands between the amount key
\* and the uetr key.
AlertAmountField ==
    SubSeq(alert.text,
           Len(AlertOpen) + Len(decoded.debtor_name) + Len(AlertAmountKey) + 1,
           Len(alert.text) - Len(AlertClose) - Len(decoded.uetr) - Len(AlertUetrKey))

\* C15: a decimal amount string with at most 6 fractional digits and a
\* positive value is decoded, and the amount field of its alert line is a
\* decimal of exactly the original numeric value.
C15_DecodeFormatRoundTrip ==
    LET t == doc.instd_amt.text
    IN  (/\ Decoded
         /\ ElementsAccepted(doc)
         /\ IsPlainDecimal(t)
         /\ Len(FractionalDigits(t)) <= FractionDigits
         /\ AmountPositive(DecimalValue(t)))
        => /\ parsed_ok
           /\ dpc = "formatted" =>
                /\ alert.len > 0
                /\ IsPlainDecimal(AlertAmountField)
                /\ Len(FractionalDigits(AlertAmountField)) <= FractionDigits
                /\ DecimalValue(AlertAmountField) = DecimalValue(t)

\* "0.01" came back as 0.010000.
C15_CentRoundTripWitness ==
    /\ dpc = "formatted"
    /\ doc.instd_amt.text = <<"0", ".", "0", "1">>
    /\ AlertAmountField = <<"0", ".", "0", "1", "0", "0", "0", "0">>

\* C16: parse fails whenever a required element is absent (PmtId with a UETR
\* or EndToEndId child, Dbtr/Nm, Cdtr/Nm, Amt/InstdAmt), Ccy is absent or
\* not exactly 3 bytes, or Ccy is not EUR, USD or GBP; it succeeds when all
\* are present with a whitelisted currency and a positive amount.
C16_RequiredElementsAndCurrency ==
    Decoded =>
        /\ (\/ ~RequiredPresent(doc)
            \/ ~doc.ccy.present
            \/ Len(doc.ccy.text) # 3
            \/ doc.ccy.text \notin {Eur, Usd, Gbp}) => ~parsed_ok
        /\ (/\ ElementsAccepted(doc)
            /\ AmountPositive(ClaimedAmount(doc.instd_amt.text))) => parsed_ok

\* A complete message in an unlisted 3-byte currency was rejected.
C16_UnlistedCurrencyWitness ==
    /\ dpc = "parsed"
    /\ ~parsed_ok
    /\ doc = Message(<<"1", "5", "0", "0", ".", "0", "0">>,
                     Node(<<"X", "Y", "Z">>), ShortName)

\* text occurs in line as a run of consecutive bytes.
Contains(line, text) ==
    \E i \in 0..(Len(line) - Len(text)) :
        SubSeq(line, i + 1, i + Len(text)) = text

\* The first n bytes of a text longer than n, the text itself otherwise.
FirstBytes(text, n) == IF Len(text) > n THEN SubSeq(text, 1, n) ELSE text

\* C17 as stated: a debtor or creditor name longer than 63 bytes is decoded
\* to its first 63 bytes (a UETR to its first 36), decoding succeeds, and
\* the alert JSON of the payment contains the truncated name verbatim.
C17_TruncatedNameInAlert ==
    /\ (Decoded /\ ElementsAccepted(doc)
          /\ AmountPositive(ClaimedAmount(doc.instd_amt.text))) => parsed_ok
    /\ (Decoded /\ parsed_ok) =>
         /\ decoded.debtor_name = FirstBytes(doc.dbtr_nm.text, NameBytes)
         /\ decoded.creditor_name = FirstBytes(doc.cdtr_nm.text, NameBytes)
         /\ decoded.uetr
              = FirstBytes(IF doc.uetr.present THEN doc.uetr.text ELSE doc.e2e.text,
                           UetrBytes)
    /\ dpc = "formatted" =>
         /\ Len(doc.dbtr_nm.text) > NameBytes
              => Contains(alert.text, decoded.debtor_name)
         /\ Len(doc.cdtr_nm.text) > NameBytes
              => Contains(alert.text, decoded.creditor_name)

\* C17 as amended: names longer than 63 bytes are decoded to their first 63
\* bytes (a UETR to its first 36), decoding succeeds, and the alert JSON of
\* the payment carries the truncated debtor name (and the truncated UETR)
\* verbatim in its debtor (uetr) field.
C17_TruncationAndDebtorInAlert ==
    /\ (Decoded /\ ElementsAccepted(doc)
          /\ AmountPositive(ClaimedAmount(doc.instd_amt.text))) => parsed_ok
    /\ (Decoded /\ parsed_ok) =>
         /\ decoded.debtor_name = FirstBytes(doc.dbtr_nm.text, NameBytes)
         /\ decoded.creditor_name = FirstBytes(doc.cdtr_nm.text, NameBytes)
         /\ decoded.uetr
              = FirstBytes(IF doc.uetr.present THEN doc.uetr.text ELSE doc.e2e.text,
                           UetrBytes)
    /\ dpc = "formatted" =>
         LET name == FirstBytes(doc.dbtr_nm.text, NameBytes)
             id == FirstBytes(IF doc.uetr.present THEN doc.uetr.text ELSE doc.e2e.text,
                              UetrBytes)
         IN  /\ alert.len = Len(alert.text)
             /\ alert.len > 0
             /\ SubSeq(alert.text, 1, Len(AlertOpen) + Len(name) + Len(AlertAmountKey))
                  = AlertOpen \o name \o AlertAmountKey
             /\ SubSeq(alert.text, Len(alert.text) - Len(AlertClose) - Len(id) + 1,
                       Len(alert.text))
                  = id \o AlertClose

\* A 100-byte debtor name went into the alert line as its first 63 bytes.
C17_LongDebtorWitness ==
    /\ dpc = "formatted"
    /\ Len(doc.dbtr_nm.text) = LongTextLen
    /\ Len(decoded.debtor_name) = NameBytes
    /\ alert.len > 0

ValidRecord(p) ==
    /\ p.valid_schema
    /\ AmountPositive(p.amount)
    /\ p.currency \in {Eur, Usd, Gbp}

\* The ingress holds a decoded payment it has not pushed yet.
InPushLoop == ipc \in {"push", "retry"}

\* C13: a record is pushed to ring1 only after parse returned success for
\* its message; a message parse rejects causes no push and no change of the
\* risk store or of a metric counter, and the ingress goes on to the next
\* message; so every record the scorer pops has valid_schema, a positive
\* amount and a currency in {EUR, USD, GBP}.
C13_OnlyDecodedPaymentsReachScorer ==
    /\ [](/\ \A i \in 1..Len(ring1) : ValidRecord(ring1[i])
          /\ transactions_total > 0 => ValidRecord(item)
          /\ InPushLoop => ValidRecord(cur)
          /\ pushed_total <= decoded_total
          /\ transactions_total <= pushed_total)
    /\ [][failed_total' # failed_total =>
            /\ failed_total' = failed_total + 1
            /\ nread' = nread + 1
            /\ ipc' = "read"
            /\ UNCHANGED <<ring1, ring2, pushed_total, risk_map,
                           transactions_total, risk_blocks_total,
                           drops_total>>]_vars

\* A rejected message went by between two payments that were both scored.
C13_RejectedBetweenScoredWitness ==
    /\ failed_total = 1
    /\ nread = 3
    /\ decoded_total = 2
    /\ transactions_total = 2
    /\ NumberOf(item.uetr) = 2

\* The ingress's stop condition in its retry loop.
StopRequested == IF mode = "replay" THEN force_quit ELSE ~running

\* C18: when ring1 is full the ingress retries the same decoded payment
\* until the push succeeds or stop is requested; while no stop is requested
\* no decoded payment is discarded, payments enter ring1 in input order, and
\* drops_total is never incremented because of ring1.
C18_Ring1BackpressureRetries ==
    /\ [](/\ decoded_total
               = pushed_total + abandoned + (IF InPushLoop THEN 1 ELSE 0)
          /\ abandoned > 0 => StopRequested
          /\ \A i \in 1..Len(ring1) :
               NumberOf(ring1[i].uetr) = pushed_total - Len(ring1) + i
          /\ InPushLoop => NumberOf(cur.uetr) = pushed_total + 1)
    /\ [][/\ (ipc = "push" /\ ipc' # "push" /\ RingFull(ring1))
               => (ipc' = "retry" /\ cur' = cur /\ ring1' = ring1)
          /\ (ipc = "retry" /\ ipc' # "retry" /\ ~StopRequested)
               => (ipc' = "push" /\ cur' = cur)
          /\ drops_total' # drops_total
               => (spc = "handle" /\ RingFull(ring2) /\ ring1' = ring1)]_vars

\* The replay ingress was refused by a full ring1 that had already wrapped
\* and is about to push the same payment again.
C18_RefusedAndRetryingWitness ==
    /\ mode = "replay"
    /\ ipc = "retry"
    /\ RingFull(ring1)
    /\ ~force_quit
    /\ pushed_total >= RingSize

\* The scorer holds a result with score > 0.5 whose alert it has neither
\* pushed nor dropped yet.
AlertInHand == IF spc = "handle" /\ AlertWanted(last.score) THEN 1 ELSE 0

\* C19: a push of an alert that ring2 refuses increments drops_total by
\* exactly one and the alert is discarded without retry; so the number of
\* scored payments with total > 0.5 is the number of alerts ring2 accepted
\* plus drops_total (plus the one alert the scorer has in hand, if any).
C19_DropsAccountForRefusedAlerts ==
    /\ [](wanted = accepted + drops_total + AlertInHand)
    /\ [][/\ (spc = "handle" /\ spc' # "handle"
                /\ AlertWanted(last.score) /\ RingFull(ring2))
               => /\ drops_total' = drops_total + 1
                  /\ ring2' = ring2
                  /\ accepted' = accepted
                  /\ spc' = "idle"
          /\ drops_total' # drops_total => drops_total' = drops_total + 1
          /\ accepted' # accepted
               => (accepted' = accepted + 1 /\ ring2' = Append(ring2, ring2'[Len(ring2')]))]_vars

\* ring2 is full and one alert was dropped.
C19_OneDroppedWitness ==
    /\ RingFull(ring2)
    /\ spc = "idle"
    /\ drops_total = 1
    /\ accepted = RingSize - 1
    /\ wanted = RingSize

\* C20: while ring2 stays full (the pusher stalled, or returned because its
\* socket setup failed) the scorer keeps popping and scoring: every popped
\* payment increments transactions_total by one, the scorer never waits for
\* space in ring2, and ring1 is drained.
C20_ScorerNeverWaitsForRing2 ==
    /\ [][/\ Len(ring1') < Len(ring1)
               => (transactions_total' = transactions_total + 1
                     /\ ring1' = Tail(ring1))
          /\ transactions_total' # transactions_total
               => ring1' = Tail(ring1)]_vars
    /\ (spc = "handle") ~> (spc = "idle" \/ ~Alive)
    /\ (ring1 # <<>> /\ spc # "handle") ~> (spc = "handle" \/ force_quit)

\* The pusher returned at its socket setup, ring2 is full, an alert was
\* dropped and every payment of the input has been scored.
C20_PusherGoneDrainedWitness ==
    /\ kpc = "failed"
    /\ RingFull(ring2)
    /\ drops_total >= 1
    /\ ring1 = <<>>
    /\ transactions_total = MaxLines

(***************************************************************************)
(* Metric counters (C26)                                                   *)
(***************************************************************************)
\* C26: transactions_total counts the payments the scorer popped (one per
\* pop, at the pop) and risk_blocks_total counts those of them whose result
\* was blocked (one per blocked result, when the result is handled), so
\* risk_blocks_total <= transactions_total; transactions_total,
\* risk_blocks_total and drops_total never decrease.
C26_CountersCountPopsAndBlocks ==
    /\ [](/\ risk_blocks_total <= transactions_total
          /\ (spc = "handle" /\ last.is_blocked)
               => risk_blocks_total < transactions_total)
    /\ [][/\ (transactions_total' # transactions_total)
               <=> (spc = "idle" /\ spc' = "load")
          /\ transactions_total' \in {transactions_total, transactions_total + 1}
          /\ (risk_blocks_total' # risk_blocks_total)
               <=> (spc = "handle" /\ spc' # "handle" /\ last.is_blocked)
          /\ risk_blocks_total' \in {risk_blocks_total, risk_blocks_total + 1}
          /\ drops_total' >= drops_total]_vars

\* Ten payments were popped, the ninth and the tenth were blocked, and the
\* eighth raised an alert without being blocked.
C26_TwoOfTenBlockedWitness ==
    /\ spc = "idle"
    /\ transactions_total = 10
    /\ risk_blocks_total = 2
    /\ ipc_count = 7

(***************************************************************************)
(* is_full (C27)                                                           *)
(***************************************************************************)
\* Neither thread is inside push or pop.
Quiescent == ppc = "idle" /\ cpc = "idle"

\* C27: in a quiescent ring of size N, is_full returns true exactly when
\* N-1 items are outstanding, the state in which the next push fails; it is
\* false on the empty ring.
C27_IsFullAtSizeMinusOne ==
    /\ [](Quiescent =>
            /\ is_full <=> (Outstanding = RingSize - 1)
            /\ Outstanding = 0 => ~is_full)
    /\ [][(PushCheckFull /\ cpc = "idle")
            => ((lastPush' = "full" /\ ppc' = "idle") <=> is_full)]_vars

\* After N-1 pushes a further push was refused (the ring was full), then one
\* item was popped: is_full is false again.
C27_PoppedFromFullWitness ==
    /\ Quiescent
    /\ Len(pushed) = RingSize - 1
    /\ lastPush = "full"
    /\ Len(popped) = 1
    /\ ~is_full

(***************************************************************************)
(* Monotonicity of the total (C28)                                         *)
(***************************************************************************)
\* Velocities the total of a finished evaluation is compared with.
MaxVelocity == 12

\* The amount lies in the structuring band of the threshold st, as
\* evaluate decides it.
InBand(amount, st) == StructuringScore(amount, st) = 1

\* evaluate read one weight set: its two reads of velocity_threshold agree.
OneWeightSet == eread[1] = eread[2]

\* C28: with the weight set and the amount fixed, a larger velocity never
\* gives a smaller total; with the weight set and the velocity fixed, an
\* amount inside the structuring band never gives a smaller total than an
\* amount outside it.
C28_TotalMonotone ==
    (spc = "handle" /\ OneWeightSet) =>
        /\ last.score = TotalRisk(eread, ev, item.amount)
        /\ \A v \in 0..MaxVelocity :
             /\ v <= ev => TotalRisk(eread, v, item.amount) <= last.score
             /\ v >= ev => TotalRisk(eread, v, item.amount) >= last.score
        /\ \A a \in Amounts :
             /\ (InBand(item.amount, eread[3]) /\ ~InBand(a, eread[3]))
                  => TotalRisk(eread, ev, a) <= last.score
             /\ (InBand(a, eread[3]) /\ ~InBand(item.amount, eread[3]))
                  => TotalRisk(eread, ev, a) >= last.score

\* An evaluation with the reloaded weights and velocity 2: velocity 1 scores
\* strictly less, velocity 7 saturates and scores strictly more, and the
\* amount is in the band while another amount is not.
C28_StrictlyLargerWitness ==
    /\ spc = "handle"
    /\ OneWeightSet
    /\ ev = 2
    /\ TotalRisk(eread, 1, item.amount) < last.score
    /\ TotalRisk(eread, 7, item.amount) > last.score
    /\ InBand(item.amount, eread[3])
    /\ \E a \in Amounts : TotalRisk(eread, ev, a) < last.score

(***************************************************************************)
(* Shutdown of a run (C22, C23)                                            *)
(***************************************************************************)
\* C22: in replay mode with a file of K valid lines (K may exceed the
\* capacity of ring1) all K payments are scored before the process exits:
\* transactions_total ends at K and ring1 is empty at the exit; drops_total
\* is not incremented because of ring1.
C22_ReplayScoresAllBeforeExit ==
    /\ []((mode = "replay" /\ mainpc = "exited" /\ failed_total = 0) =>
            /\ transactions_total = nread
            /\ ring1 = <<>>)
    /\ [][drops_total' # drops_total
            => (spc = "handle" /\ RingFull(ring2) /\ ring1' = ring1)]_vars

\* C23: after the stop flag is set the scorer ends only with ring1 empty,
\* the pusher ends only with ring2 empty and the scorer ended (no alert can
\* follow), and main returns only after both threads ended.
C23_DrainAndJoinBeforeExit ==
    /\ (force_quit /\ spc = "exited") => ring1 = <<>>
    /\ (force_quit /\ kpc = "exited") => (ring2 = <<>> /\ spc = "exited")
    /\ mainpc = "exited" => (spc = "exited" /\ kpc \in {"exited", "failed"})

(***************************************************************************)
(* Offset commits (C30)                                                    *)
(***************************************************************************)
\* C30: the live ingress counts toward its commit exactly the messages that
\* were decoded and pushed to ring1, and issues a commit exactly when that
\* number reaches a multiple of 1000; a message that failed decoding or
\* whose push was given up is not counted and triggers no commit.
C30_CommitCountsPushedOnly ==
    /\ [](mode = "live" =>
            /\ msg_count = pushed_total
            /\ commits = pushed_total \div CommitEvery)
    /\ [][/\ msg_count' # msg_count => pushed_total' = pushed_total + 1
          /\ commits' # commits
               => (/\ commits' = commits + 1
                   /\ pushed_total' = pushed_total + 1
                   /\ pushed_total' % CommitEvery = 0)]_vars

(***************************************************************************)
(* Start, errors and stop of a run (C24, C25, C29)                         *)
(***************************************************************************)
\* C24: once consume reported a fatal error (any error but a poll timeout
\* and a partition EOF) the live ingress leaves its loop: it calls consume
\* no more and its next step ends the thread; after a poll timeout it
\* changes nothing and polls again.
C24_FatalErrorEndsIngress ==
    [][/\ last_err = "FATAL" =>
            /\ polls' = polls
            /\ nread' = nread
            /\ ipc' \in {ipc, "done"}
       /\ (polls' # polls /\ last_err' = "TIMED_OUT") =>
            /\ ipc' = "read"
            /\ UNCHANGED <<nread, cur, ring1, msg_count, commits>>]_vars

\* A component failed to start: the metrics server could not create or
\* bind its socket, or the live ingress did not get its consumer subscribed.
StartupFailed ==
    \/ metrics_pc = "failed"
    \/ (mode = "live" /\ mainpc \in {"run", "join", "stopping", "joinwatcher",
                                       "exited"}
          /\ ~(\E i \in 1..Len(started) : started[i] = "ingress"))

\* C25: a run with a startup failure ends with a non-zero exit code; exit
\* code 0 is returned only by a run in which every component started.
C25_ExitCodeReflectsStartup ==
    mainpc = "exited" =>
        IF StartupFailed THEN exit_code \notin {NotExited, 0} ELSE exit_code = 0

\* The start order the pipeline is specified with.
StartOrder == <<"metrics", "watcher", "pusher", "scorer", "ingress">>

\* The place of component c in StartOrder.
StartRank(c) == CHOOSE i \in 1..Len(StartOrder) : StartOrder[i] = c

\* C29: the components are started in the order metrics endpoint, rule
\* watcher, pusher, scorer, ingress; on shutdown the stop flag is set before
\* any component is stopped and the components are stopped in the reverse
\* order: the scorer ends before the pusher, both before the rule watcher
\* is stopped, and main's own stops come in reverse start order.
C29_StartAndStopOrder ==
    /\ IsPrefix(started, StartOrder)
    /\ stopped # <<>> => stopped[1] = "flag"
    /\ \A i, j \in 2..Len(stopped) :
         i < j => StartRank(stopped[i]) > StartRank(stopped[j])
    /\ kpc = "exited" => spc = "exited"
    /\ (\E i \in 1..Len(stopped) : stopped[i] = "watcher")
         => (spc = "exited" /\ kpc \in {"exited", "failed"})

(***************************************************************************)
(* Cooperative stop (C31)                                                  *)
(***************************************************************************)
\* Every pipeline thread has returned from its function.
ThreadsEnded ==
    /\ ipc \in {"done", "unstarted"}
    /\ spc \in {"exited", "unstarted"}
    /\ kpc \in {"exited", "failed", "unstarted"}
    /\ wlpc \in {"exited", "unstarted"}

\* C31: once the stop flag is set every pipeline thread (ingress, scorer,
\* pusher, rule watcher) eventually leaves its loop and returns; none is
\* ended by the exit of the process while it is still inside its loop.
C31_StopFlagEndsEveryThread == force_quit ~> ThreadsEnded

(***************************************************************************)
(* Rule swap: the writer's side (C34)                                      *)
(***************************************************************************)
\* The slots a step stored a field into.
WrittenSlots == {i \in 0..1 : rule_gen'[i] # rule_gen[i]}

\* C34: reload_rules stores the new weights only into the slot that is not
\* the active one when the store happens, so the active slot is never
\* written; it changes active_idx only when every field of the other slot
\* holds the weights of this reload, and once reload_rules has returned the
\* active slot holds exactly the published weights.
C34_ReloadWritesInactiveSlot ==
    /\ [][/\ \A i \in WrittenSlots : i # active_idx /\ i # active_idx'
          /\ active_idx' # active_idx =>
               /\ WrittenSlots = {}
               /\ rule_sets[active_idx'] = ReloadedWeights
               /\ \A f \in WeightFields : rule_gen[active_idx'][f] = reloads]_vars
    /\ []((wpc = "idle" /\ reloads > 0) =>
            /\ rule_sets[active_idx] = ReloadedWeights
            /\ \A f \in WeightFields : rule_gen[active_idx][f] = reloads)

\* C34 witness: the second reload has returned; it rewrote slot 0, the slot
\* that was active before the first reload, and made it active again.
C34_SecondReloadWitness ==
    /\ reloads = 2
    /\ wpc = "idle"
    /\ active_idx = 0
    /\ rule_sets[0] = ReloadedWeights
    /\ \A f \in WeightFields : rule_gen[0][f] = 2 /\ rule_gen[1][f] = 1

(***************************************************************************)
(* Frame of push and pop (C35)                                             *)
(***************************************************************************)
\* The step is one of the producer inside push, of the consumer inside pop.
ProducerStep == <<ppc, pw>>' # <<ppc, pw>>
ConsumerStep == <<cpc, cw>>' # <<cpc, cw>>

\* C35: a step of push leaves tail, the caller's item of pop and every slot
\* but buffer[head] unchanged and changes head only in its last step, on
\* success; a step of pop leaves head and every slot unchanged; the steps of
\* a call up to and including a test that fails (full, empty) change neither
\* head nor tail nor a slot nor the output item.
C35_FrameOfPushAndPop ==
    [][/\ ProducerStep =>
            /\ UNCHANGED <<tail, citem>>
            /\ \A i \in 0..(RingSize - 1) : i # head => buffer'[i] = buffer[i]
            /\ head' # head => (ppc = "store" /\ lastPush' = "ok")
            /\ ppc \in {"idle", "check"} => UNCHANGED <<head, buffer>>
       /\ ConsumerStep =>
            /\ UNCHANGED <<head, buffer>>
            /\ tail' # tail => (cpc = "store" /\ lastPop' = "ok")
            /\ cpc \in {"idle", "check"} => UNCHANGED <<tail, citem>>
       /\ (ppc = "check" /\ ppc' = "idle") =>
            (lastPush' = "full" /\ UNCHANGED <<head, tail, buffer, citem>>)
       /\ (cpc = "check" /\ cpc' = "idle") =>
            (lastPop' = "empty" /\ UNCHANGED <<head, tail, buffer, citem>>)]_vars

\* C35 witness: a pop was refused on the empty ring after an item had gone
\* through it (the output item still holds that item), then the ring was
\* filled and a push was refused.
C35_BothRefusedWitness ==
    /\ lastPop = "empty"
    /\ cpc = "idle"
    /\ Len(popped) >= 1
    /\ citem = popped[Len(popped)]
    /\ lastPush = "full"
    /\ ppc = "idle"
    /\ Len(pushed) - Len(popped) = RingSize - 1

(***************************************************************************)
(* Length of the alert record (C36)                                        *)
(***************************************************************************)
\* C36: every record g_ipc_buffer accepted has 0 < len < 512, so within the
\* 512 bytes of data, and len is the length of the line written; the alert
\* line of every decoded payment passes the length test, whatever the length
\* of the name and of the UETR in the message and whatever the amount.
C36_AlertFitsRecord ==
    /\ \A i \in 1..Len(ring2) :
         /\ ring2[i].len > 0
         /\ ring2[i].len < AlertCapacity
         /\ ring2[i].len = Len(ring2[i].data)
    /\ (dpc = "pushed" /\ parsed_ok) =>
         /\ Len(ring2) = 1
         /\ ring2[1].data = AlertText(decoded)

\* C36 witness: the record of a payment whose name and UETR were cut to 63
\* and 36 bytes and whose amount has the most digits was accepted.
C36_LongestLineWitness ==
    /\ dpc = "pushed"
    /\ Len(doc.dbtr_nm.text) > NameBytes
    /\ Len(doc.uetr.text) > UetrBytes
    /\ Len(decoded.debtor_name) = NameBytes
    /\ Len(decoded.uetr) = UetrBytes
    /\ decoded.amount = <<2147483647, 999999>>
    /\ Len(ring2) = 1
    /\ ring2[1].len = 13 + NameBytes + 13 + 10 + 1 + FractionDigits + 11
                        + UetrBytes + 3

(***************************************************************************)
(* Order and delivery of alerts (C37, C38)                                 *)
(***************************************************************************)
\* The UETR printed in an alert line: the text between the "uetr" key and
\* the closing of the line.
AlertUetrOf(data) ==
    LET k == CHOOSE i \in 0..(Len(data) - Len(AlertUetrKey)) :
                 SubSeq(data, i + 1, i + Len(AlertUetrKey)) = AlertUetrKey
    IN  SubSeq(data, k + Len(AlertUetrKey) + 1, Len(data) - Len(AlertClose))

\* The place in the input of the payment an alert record was made for.
PaymentNo(rec) == NumberOf(AlertUetrOf(rec.data))

\* The alerts g_ipc_buffer accepted so far, oldest first.
AcceptedAlerts == handed \o ring2

\* C37: an alert is made for the payment the scorer popped last, so after
\* that payment left ring1; payments are in ring1 in input order, and the
\* alerts accepted by ring2 and handed to the socket follow the order of
\* their payments: the pusher hands over the oldest record of ring2.
C37_AlertsFollowPaymentOrder ==
    /\ [](/\ \A i, j \in 1..Len(AcceptedAlerts) :
               i < j => PaymentNo(AcceptedAlerts[i]) < PaymentNo(AcceptedAlerts[j])
          /\ \A i, j \in 1..Len(ring1) :
               i < j => NumberOf(ring1[i].uetr) < NumberOf(ring1[j].uetr)
          /\ \A i \in 1..Len(AcceptedAlerts) :
               /\ PaymentNo(AcceptedAlerts[i]) \in 1..transactions_total
               /\ \A k \in 1..Len(ring1) :
                    PaymentNo(AcceptedAlerts[i]) < NumberOf(ring1[k].uetr))
    /\ [][/\ accepted' # accepted =>
               /\ spc = "handle"
               /\ ring2' = Append(ring2, [len |-> AlertLength(item),
                                          data |-> AlertText(item)])
               /\ PaymentNo(ring2'[Len(ring2')]) = NumberOf(item.uetr)
               /\ NumberOf(item.uetr) = transactions_total
          /\ handed' # handed =>
               /\ ring2 # <<>>
               /\ handed' = Append(handed, Head(ring2))
               /\ ring2' = Tail(ring2)]_vars

\* C37 witness: two alerts were handed to the socket and a third waits in
\* ring2; the first payments of the input caused no alert.
C37_ThreeAlertsInOrderWitness ==
    /\ Len(handed) = 2
    /\ Len(ring2) = 1
    /\ PaymentNo(handed[1]) > 1
    /\ PaymentNo(handed[2]) > PaymentNo(handed[1])
    /\ PaymentNo(ring2[1]) > PaymentNo(handed[2])

\* The records whose send returned normally, in the order of the sends.
Delivered == {i \in 1..Len(handed) : i \notin send_failed}

\* C38: the pusher hands every record it pops to sock.send exactly once:
\* a send, failed or not, takes the record out of ring2 for good, leaves
\* the metric counters alone and the pusher in its drain loop; so no record
\* is handed over, and none is delivered, twice.
C38_SendOnceNoRetry ==
    /\ [](/\ sent = Len(handed)
          /\ Len(handed) + Len(ring2) = accepted
          /\ send_failed \subseteq 1..Len(handed)
          /\ \A i, j \in 1..Len(handed) : i # j => handed[i] # handed[j]
          /\ \A i, j \in Delivered : i # j => handed[i] # handed[j]
          /\ \A i \in 1..Len(handed) : \A k \in 1..Len(ring2) :
               handed[i] # ring2[k])
    /\ [][/\ sent' # sent =>
               /\ kpc = "drain" /\ kpc' = "drain"
               /\ sent' = sent + 1
               /\ handed' = Append(handed, Head(ring2))
               /\ ring2' = Tail(ring2)
               /\ UNCHANGED <<transactions_total, risk_blocks_total,
                              drops_total>>
          /\ send_failed' # send_failed =>
               /\ send_failed' = send_failed \cup {Len(handed')}
               /\ sent' = sent + 1
          /\ Len(ring2') < Len(ring2) => sent' = sent + 1]_vars

\* C38 witness: the first send threw, the pusher went on and handed over
\* the next record as well, and a third record waits in ring2.
C38_FailedThenNextWitness ==
    /\ send_failed = {1}
    /\ Len(handed) = 2
    /\ ring2 # <<>>
    /\ kpc = "drain"
    /\ drops_total = 0

\* ---------------------------------------------------------------------
\* C39  An entity whose payments are never more than 1 s apart.

\* The velocity score evaluate computes from the accumulator it has just
\* stored and the thresholds it has read.
VelocitySaturated ==
    (spc = "return" /\ rapid_run >= 2 * DefaultWeights.velocity_threshold)
        => VelocityScore(ev, eread[1], eread[2]) = VelocityOne

\* C39 as stated: while the payments of an entity are never more than 1 s
\* apart its accumulator is the number of payments of the run, without
\* bound and whatever the time since the first one, and the velocity score
\* is saturated at 1 from the tenth payment on.
C39_AccumulatorCountsWithoutBound ==
    /\ \A e \in DOMAIN risk_map :
         risk_map[e].velocity_accumulator = rapid_run
    /\ VelocitySaturated

\* C39 as the code has it: the accumulator is the number of payments of
\* the run up to 2^24 = 16777216, where the float stays; it is never reset
\* while the payments are at most 1 s apart, whatever the time since the
\* first one, and the velocity score is saturated at 1 from the tenth
\* payment on.
C39_AccumulatorCountsToFloatLimit ==
    /\ \A e \in DOMAIN risk_map :
         risk_map[e].velocity_accumulator
           = IF rapid_run < FloatExact THEN rapid_run ELSE FloatExact
    /\ VelocitySaturated

\* C39 witness: the run is past 2^24 payments and has lasted two seconds,
\* the accumulator stands at 2^24 and the payment being scored gets the
\* saturated velocity score.
C39_PastFloatLimitWitness ==
    /\ rapid_run > FloatExact
    /\ now = OneSecond + 3
    /\ spc = "return"
    /\ ev = FloatExact
    /\ risk_map["ACME"].velocity_accumulator = FloatExact
    /\ VelocityScore(ev, eread[1], eread[2]) = VelocityOne

\* ---------------------------------------------------------------------
\* C32  The shard mutex and concurrent calls of evaluate for one entity.

\* The accumulator of name n in the shard that tracks it, 0 while none does.
AccumulatorOf(n) ==
    IF \E i \in DOMAIN shards : n \in DOMAIN shards[i].map
      THEN LET i == CHOOSE j \in DOMAIN shards : n \in DOMAIN shards[j].map
           IN  shards[i].map[n].velocity_accumulator
      ELSE 0

\* A thread is between its observation of n and the store of its velocity.
Updating(n) ==
    \E t \in Threads :
        t_key[t] = n /\ t_pc[t] \in {"reset", "store_seen", "load_v", "store_v"}

KnownShard(n) ==
    CASE n = "ACME" -> 719
      [] n = "ACME-344" -> 719
      [] n = "GLOBEX" -> 174

\* The names shard i tracks.
TrackedIn(i) == DOMAIN ShardAt(i).map

\* C33: every tracked name sits in the shard FNV-1a(name) AND 1023 and a
\* thread past find has its name tracked there, however many entries the
\* shard held; an entry appears zeroed, in the find step of a thread that
\* presents the name while it is not tracked; and no entry ever leaves a
\* shard, so no shard shrinks.
C33_EntityCreatedInItsShardAndKept ==
    /\ [](/\ \A i \in DOMAIN shards : \A n \in TrackedIn(i) : i = KnownShard(n)
          /\ \A t \in Threads :
               t_pc[t] \in LockedPcs \ {"find"} =>
                 /\ t_shard_idx[t] = KnownShard(t_key[t])
                 /\ t_key[t] \in TrackedIn(t_shard_idx[t]))
    /\ [][/\ \A i \in DOMAIN shards :
               /\ i \in DOMAIN shards'
               /\ TrackedIn(i) \subseteq DOMAIN shards'[i].map
          /\ others' = others
          /\ \A i \in DOMAIN shards' : \A n \in DOMAIN shards'[i].map :
               n \notin TrackedIn(i) =>
                 /\ shards'[i].map[n] = ColdState
                 /\ \E t \in Threads :
                      /\ t_pc[t] = "find" /\ t_pc'[t] = "load_seen"
                      /\ t_key[t] = n]_vars

\* C33 witness: the shard of ACME held 500 entries and admitted ACME and
\* ACME-344, the second one just now and zeroed; GLOBEX is tracked in its
\* own shard.
C33_AdmittedPastCapWitness ==
    /\ OthersAt(719) = MAX_ENTRIES_PER_SHARD
    /\ TrackedIn(719) = {"ACME", "ACME-344"}
    /\ ShardSize(719) = MAX_ENTRIES_PER_SHARD + 2
    /\ TrackedIn(174) = {"GLOBEX"}
    /\ \E t \in Threads :
         /\ t_pc[t] = "load_seen" /\ t_key[t] = "ACME-344"
         /\ ShardAt(719).map["ACME-344"] = ColdState
    /\ ShardAt(719).map["ACME"].velocity_accumulator = 1

====
